---- MODULE Spec2Model ----
(***************************************************************************)
(* Model of the Meta-Learning AI System: the input analyzer, the rule      *)
(* engine, the strategy selector (select_strategy, execute_strategy,       *)
(* update_from_feedback), the three answering engines it drives and the    *)
(* /respond pipeline of the FastAPI application.                           *)
(*                                                                         *)
(* Text.  A query is a sequence of words; the string it stands for is the  *)
(* words joined by single blanks.  The word " " is a run of whitespace, so *)
(* a query may start or end with whitespace and strip() has work to do;    *)
(* "What" is the one capitalised word, so lower() has work to do.  A       *)
(* keyword of the source is the sequence of its words, and `kw in q` is    *)
(* the occurrence of that sequence in q, or, as `in` compares characters,   *)
(* the occurrence of a one-word keyword inside a word: "implications" has  *)
(* the keyword "mp" inside.  No other word of the vocabulary contains a    *)
(* keyword of the source other than itself.                                *)
(*                                                                         *)
(* Numbers.  A confidence is an integer number of hundredths (0.35 is 35). *)
(* A strategy weight is the exact rational num[s] / den; SpecStored also   *)
(* follows the binary64 values the interpreter stores for the weights,     *)
(* with every product, sum and quotient rounded to nearest, ties to even.  *)
(* A rationale is the sequence of the parts its f-string is put together   *)
(* from.                                                                   *)
(***************************************************************************)
EXTENDS Integers, Sequences, FiniteSets, TLC

VARIABLES
    strategy_weights,   \* StrategySelector.strategy_weights: [num |-> [strategy -> Nat], den |-> Nat]
    strategy_success,   \* StrategySelector.strategy_success: strategy -> [success, total]
    simulation_mode,    \* TransformerEngine.simulation_mode
    cache,              \* RetrievalEngine.cache: normalized query -> result
    memory_store,       \* ExperienceStore.memory_store (in-memory fallback)
    pc,                 \* "ready" while requests are accepted, "done" after the observed request
    call                \* the observed request: its operation, inputs and outcome

vars == <<strategy_weights, strategy_success, simulation_mode, cache, memory_store, pc, call>>

----------------------------------------------------------------------------
(* Bounds *)

MaxQueryLen == 2        \* words per query
MaxFeedback == 2        \* feedback events before a select_strategy call
MaxRequestFeedback == 1 \* feedback events before a /respond request
MaxLearn == 5           \* feedback events of a run of update_from_feedback calls
MaxStore == 101         \* experiences in the store when feedback is submitted
MaxLookups == 3         \* direct Wikipedia lookups of one predict call
MaxStored == 2          \* feedback events of a run followed on the stored floats

----------------------------------------------------------------------------
(* Text *)

Words == {"predict", "mark", "cheat", "president", "kerala", "maximum",
          "calculate", "explain", "implications", "What", "help", "7", " "}

\* str.lower(), word by word
LowerWord(w) == IF w = "What" THEN "what" ELSE w

lower(q) == [i \in 1..Len(q) |-> LowerWord(q[i])]

RECURSIVE lstrip(_)
lstrip(q) == IF q # <<>> /\ Head(q) = " " THEN lstrip(Tail(q)) ELSE q

RECURSIVE rstrip(_)
rstrip(q) == IF q # <<>> /\ q[Len(q)] = " " THEN rstrip(SubSeq(q, 1, Len(q) - 1)) ELSE q

\* str.strip()
strip(q) == rstrip(lstrip(q))

\* number of characters of a word
WordLen(w) ==
    CASE w \in {"7", " "} -> 1
      [] w \in {"mark", "help", "What", "what"} -> 4
      [] w = "cheat" -> 5
      [] w = "kerala" -> 6
      [] w \in {"predict", "maximum", "explain"} -> 7
      [] w \in {"president", "calculate"} -> 9
      [] w = "implications" -> 12
      [] OTHER -> 5

RECURSIVE SumLen(_)
SumLen(q) == IF q = <<>> THEN 0 ELSE WordLen(Head(q)) + SumLen(Tail(q))

\* len(q) of the joined string
CharLen(q) == IF q = <<>> THEN 0 ELSE SumLen(q) + (Len(q) - 1)

\* the keywords of the source that occur inside a word
Inside(w) == IF w = "implications" THEN {"mp"} ELSE {}

\* kw in q
Contains(q, kw) ==
    \/ \E i \in 1..(Len(q) - Len(kw) + 1) : SubSeq(q, i, i + Len(kw) - 1) = kw
    \/ Len(kw) = 1 /\ \E i \in 1..Len(q) : kw[1] \in Inside(q[i])

\* any(k in q for k in kws)
ContainsAny(q, kws) == \E kw \in kws : Contains(q, kw)

\* re.search(r"a.*b", q)
SearchThen(q, a, b) == \E i \in 1..Len(q) : \E j \in (i + 1)..Len(q) : q[i] = a /\ q[j] = b

\* re.search(r"\d", q)
HasDigit(q) == \E i \in 1..Len(q) : q[i] = "7"

\* q.startswith(w)
StartsWith(q, w) == q # <<>> /\ q[1] = w

\* all queries of at most n words
QueriesUpTo(n) == UNION {[1..k -> Words] : k \in 0..n}

Queries == QueriesUpTo(MaxQueryLen)

----------------------------------------------------------------------------
(* utils/input_analyzer.py *)

explanation_keywords == {<<"why">>, <<"how">>, <<"explain">>, <<"describe">>, <<"elaborate">>}

calculation_keywords == {<<"calculate">>, <<"compute">>, <<"solve">>, <<"find">>, <<"avg">>,
                         <<"average">>, <<"mean">>, <<"sum">>}

rule_keywords == {<<"predict">>, <<"hack">>, <<"cheat">>, <<"bypass">>, <<"illegal">>}

fact_keywords == {<<"who", "is">>, <<"when">>, <<"where">>, <<"how", "many">>, <<"how", "much">>,
                  <<"limit">>, <<"minimum">>, <<"maximum">>, <<"current">>, <<"official">>,
                  <<"requirement">>, <<"eligibility">>, <<"mla">>, <<"mp">>, <<"constituency">>}

detect_intent(q) ==
    IF ContainsAny(q, rule_keywords) THEN "rule_violation"
    ELSE IF ContainsAny(q, calculation_keywords) THEN "calculation"
    ELSE IF ContainsAny(q, fact_keywords) \/ StartsWith(q, "what") THEN "factual"
    ELSE IF ContainsAny(q, explanation_keywords) THEN "explanation"
    ELSE "general"

\* the three patterns of the is_rule_violation entry
is_rule_violation(q) ==
    \/ Contains(q, <<"hack">>)
    \/ Contains(q, <<"cheat">>)
    \/ SearchThen(q, "predict", "mark")

analyze(query) ==
    LET q == strip(lower(query)) IN
    [query |-> q,
     length |-> CharLen(q),
     has_number |-> HasDigit(q),
     intent |-> detect_intent(q),
     complexity |-> IF CharLen(q) > 80 \/ Contains(q, <<"explain">>) THEN "high" ELSE "low",
     is_rule_violation |-> is_rule_violation(q)]

\* dict.get(key, default)
Get(d, key, default) == IF key \in DOMAIN d THEN d[key] ELSE default

----------------------------------------------------------------------------
(* learners/rule_engine.py *)

restricted_patterns == <<<<"predict", "mark">>, <<"predict", "score">>, <<"how", "hack">>,
                         <<"bypass", "security">>, <<"cheat", "exam">>>>

static_rules == <<
    [key |-> <<"what", "is", "meta-learning">>,
     answer |-> "Meta-learning is the process of 'learning how to learn', where an AI system automatically selects the best learning strategy for a given task."],
    [key |-> <<"who", "created", "you">>,
     answer |-> "I am a Meta-Learning AI System developed as a project demonstration."],
    [key |-> <<"help">>,
     answer |-> "I can answer questions using different strategies: Rule-based, Retrieval, Classical ML, or Transformers. Try verifying different types of queries!"],
    [key |-> <<"version">>,
     answer |-> "System Version 1.0.0 (Production Ready)"],
    [key |-> <<"minimum", "attendance">>,
     answer |-> "The minimum attendance requirement is 75% for students and 3 hours per week for project participants."],
    [key |-> <<"minimum", "age">>,
     answer |-> "The minimum age requirement for participation is 16 years of age or older."],
    [key |-> <<"attendance", "requirement">>,
     answer |-> "Attendance is mandatory at 75% threshold with a minimum of 3 active hours per week."],
    [key |-> <<"perform", "calculations">>,
     answer |-> "The system supports simple arithmetic operations (+, -, *, /) through its Classical ML engine. It does not support complex calculus or advanced statistical modeling currently."],
    [key |-> <<"what", "calculations">>,
     answer |-> "I can help with basic addition, subtraction, multiplication, and division."],
    [key |-> <<"how", "do", "you", "learn">>,
     answer |-> "I learn by selecting the best strategy for your question and improving my strategy weights based on your 'Helpful' feedback."] >>

indian_states == {
    <<"andhra", "pradesh">>, <<"arunachal", "pradesh">>, <<"assam">>, <<"bihar">>,
    <<"chhattisgarh">>, <<"goa">>, <<"gujarat">>, <<"haryana">>, <<"himachal", "pradesh">>,
    <<"jharkhand">>, <<"karnataka">>, <<"kerala">>, <<"madhya", "pradesh">>, <<"maharashtra">>,
    <<"manipur">>, <<"meghalaya">>, <<"mizoram">>, <<"nagaland">>, <<"odisha">>, <<"punjab">>,
    <<"rajasthan">>, <<"sikkim">>, <<"tamil", "nadu">>, <<"telangana">>, <<"tripura">>,
    <<"uttar", "pradesh">>, <<"uttarakhand">>, <<"west", "bengal">>}

SAFETY_REFUSAL == "I cannot fulfill this request. My safety protocols prevent me from answering queries related to predictions of personal scores, hacking, or unethical activities."

Triple(answer, confidence, reason) ==
    [answer |-> answer, confidence |-> confidence, reason |-> reason]

\* <<is_invalid, correction>>
is_invalid_role_query(query) ==
    LET query_lower == lower(query) IN
    IF (Contains(query_lower, <<"prime", "minister">>) \/ Contains(query_lower, <<"pm", "of">>))
        /\ ContainsAny(query_lower, indian_states)
    THEN <<TRUE, "In India, {state} is a state and has a Chief Minister, not a Prime Minister. Are you looking for the Chief Minister of {state}?">>
    ELSE IF Contains(query_lower, <<"president">>) /\ ContainsAny(query_lower, indian_states)
    THEN <<TRUE, "Individual states in India do not have their own Presidents. They are headed by Governors. Were you looking for the Governor of {state} or the President of India?">>
    ELSE <<FALSE, "">>

MatchesRestricted(q) ==
    \/ \E i \in 1..Len(restricted_patterns) :
          SearchThen(q, restricted_patterns[i][1], restricted_patterns[i][2])
    \/ Contains(q, <<"illegal">>)

\* index of the first static rule whose key occurs in q, 0 if none
FirstStaticRule(q) ==
    IF \E i \in 1..Len(static_rules) : Contains(q, static_rules[i].key)
    THEN CHOOSE i \in 1..Len(static_rules) :
            /\ Contains(q, static_rules[i].key)
            /\ \A j \in 1..(i - 1) : ~Contains(q, static_rules[j].key)
    ELSE 0

RuleEngine_predict(query, features) ==
    LET query_lower == strip(lower(query))
        role == is_invalid_role_query(query_lower)
        rule == FirstStaticRule(query_lower)
    IN  IF role[1] THEN Triple(role[2], 100, <<"Role-Entity Mismatch Detected">>)
        ELSE IF MatchesRestricted(query_lower)
             THEN Triple(SAFETY_REFUSAL, 100, <<"Safety Rule Violation Blocked">>)
        ELSE IF rule # 0
             THEN Triple(static_rules[rule].answer, 100,
                         <<"Static Rule Match: '">> \o static_rules[rule].key \o <<"'">>)
        ELSE Triple("", 0, <<"No rule matched">>)

----------------------------------------------------------------------------
(* learners/transformer_engine.py *)

governance_keywords == {<<"prime", "minister">>, <<"chief", "minister">>, <<"president">>,
                        <<"governor">>, <<"current", "leader">>}

\* the source writes the apostrophe of "don't" as U+2019 in every one of these
\* texts; the module's strings are ASCII
UNVERIFIED == "I don't have verified information for this query."

SAFE_FAILURE == "I don't have verified information for this query. Please refine the question or provide a trusted source."

simulate_response(query, features) ==
    LET query_lower == lower(query) IN
    IF ContainsAny(query_lower, {<<"why">>, <<"how">>, <<"explain">>})
    THEN Triple("Let me explain this concept in detail. {topic} involves multiple interconnected aspects.",
                82, <<"Complex explanation requiring reasoning">>)
    ELSE IF Get(features, "complexity", "") = "high"
    THEN Triple("This is a multifaceted question that requires careful analysis.",
                78, <<"High complexity query">>)
    ELSE Triple("To understand why this works, we need to consider the underlying mechanisms.",
                75, <<"Reasoning required">>)

\* what the model's generation and the validation shield of lines 57-162 can return
InferenceResults ==
    {Triple(UNVERIFIED, 10, <<"Validation Failure: Fuzzy Loop Detected">>),
     Triple(UNVERIFIED, 10, <<"Validation Failure: N-Gram Loop">>),
     Triple(UNVERIFIED, 10, <<"Validation Failure: Word '", "{word}", "' Stutter">>),
     Triple(UNVERIFIED, 10, <<"Validation Failure: Conflicting Entities">>),
     Triple("The system supports simple arithmetic operations (+, -, *, /). It does not currently support 'all' types of advanced calculations.",
            80, <<"Grounded Capability Check">>),
     Triple("I don't have verified information to confirm that level of capability. I support specific learning strategies like Retrieval and Rule-based logic.",
            10, <<"Validation Failure: Over-Claim">>),
     Triple(SAFE_FAILURE, 10, <<"Validation Failure: Fabricated Content">>),
     Triple("{generated sentences}.", 85, <<"Generated by Flan-T5 Transformer">>),
     Triple(UNVERIFIED, 0, <<"Inference Error: ", "{e}">>)}

\* the set of results predict can return for this query
TransformerEngine_predict(query, features) ==
    IF simulation_mode THEN {simulate_response(query, features)}
    ELSE IF ContainsAny(lower(query), governance_keywords)
    THEN {Triple("I am restricted from generating responses about active political leaders or governance to prevent hallucinations. Please use the Retrieval strategy.",
                 0, <<"Governance Block (Policy)">>)}
    ELSE InferenceResults

----------------------------------------------------------------------------
(* learners/ml_engine.py *)

intent_patterns == {<<"what", "is">>, <<"define">>, <<"meaning", "of">>, <<"explain">>,
                    <<"difference", "between">>, <<"compare">>, <<"versus">>, <<"vs">>,
                    <<"better", "than">>, <<"how", "to">>, <<"steps", "to">>, <<"process", "of">>,
                    <<"guide", "for">>, <<"way", "to">>, <<"why">>, <<"reason", "for">>,
                    <<"cause", "of">>, <<"due", "to">>, <<"example", "of">>, <<"instance", "of">>,
                    <<"sample">>, <<"show", "me">>, <<"calculate">>, <<"compute">>, <<"solve">>,
                    <<"find", "value">>, <<"sum", "of">>, <<"avg">>, <<"average">>, <<"mean">>}

ArithmeticSigns == {"+", "-", "*", "/"}

is_calculation(query) ==
    LET q == lower(query) IN
    \/ ContainsAny(q, {<<"calculate">>, <<"solve">>, <<"plus">>, <<"minus">>, <<"times">>,
                       <<"divided">>, <<"avg">>, <<"average">>, <<"mean">>, <<"sum">>})
    \/ \E i \in 1..(Len(q) - 2) : q[i] = "7" /\ q[i + 1] \in ArithmeticSigns /\ q[i + 2] = "7"

\* len(numbers)
CountNumbers(query) == Cardinality({i \in 1..Len(query) : query[i] = "7"})

\* the only number of the vocabulary is 7, so numbers[1] == 0 does not arise
handle_calculation(query) ==
    LET q == lower(query)
        numbers == CountNumbers(query)
    IN  IF ContainsAny(q, {<<"avg">>, <<"average">>, <<"mean">>})
        THEN IF numbers = 0
             THEN Triple("Please provide numbers for the average.", 50, <<"No numbers">>)
             ELSE Triple("The average of {numbers} is {res}.", 95, <<"Mean calculated">>)
        ELSE IF numbers < 2
        THEN Triple("Need at least 2 numbers for arithmetic.", 50, <<"Insufficient data">>)
        ELSE IF ContainsAny(q, {<<"+">>, <<"add">>, <<"sum">>})
        THEN Triple("Sum: {sum}", 95, <<"Addition">>)
        ELSE IF ContainsAny(q, {<<"-">>, <<"subtract">>})
        THEN Triple("Difference: {difference}", 95, <<"Subtraction">>)
        ELSE IF ContainsAny(q, {<<"*">>, <<"multiply">>})
        THEN Triple("Product: {product}", 95, <<"Multiplication">>)
        ELSE IF ContainsAny(q, {<<"/">>, <<"divide">>})
        THEN Triple("Quotient: {quotient}", 95, <<"Division">>)
        ELSE Triple("Calculation not supported. I do basic math and averages.", 40, <<"Fallback">>)

rule_based_fallback(query) ==
    IF ContainsAny(lower(query), intent_patterns)
    THEN Triple("This is a {intent} query.", 40, <<"Pattern: ", "{intent}">>)
    ELSE Triple("I'm not sure, but I'm learning!", 10, <<"Unknown">>)

\* confidences the fitted classifier may report for its best class
ClassifierConfidences == {30, 34, 35, 90}

\* the set of results predict can return for this query
MLEngine_predict(query, features) ==
    IF query = <<>> THEN {Triple("", 0, <<"Empty query">>)}
    ELSE IF is_calculation(query) THEN {handle_calculation(query)}
    ELSE {Triple("This is a {intent} query.", conf, <<"ML Intent: ", "{intent}">>) :
            conf \in {c \in ClassifierConfidences : c > 30}}
         \cup {rule_based_fallback(query)}

----------------------------------------------------------------------------
(* learners/retrieval_engine.py *)

\* best cosine similarity of the query against the knowledge base; no score
\* when no document is loaded or the vector search raises
LocalScores == {40, 41}

fetch_duckduckgo(query) ==
    {Triple("{abstract}", 85, <<"Web Retrieval (DuckDuckGo IA)">>),
     Triple(" ", 85, <<"Web Retrieval (DuckDuckGo IA)">>),
     Triple("", 0, <<"DuckDuckGo unavailable">>)}

fetch_wikipedia(query) ==
    {Triple("{extract}", 90, <<"Wikipedia: ", "{title}">>),
     Triple("", 90, <<"Wikipedia: ", "{title}">>),
     Triple("", 0, <<"Wikipedia unavailable">>)}

fetch_from_web_apis(query) ==
    {d \in fetch_duckduckgo(query) : d.answer # ""}
    \cup (IF \E d \in fetch_duckduckgo(query) : d.answer = ""
          THEN {w \in fetch_wikipedia(query) : w.answer # ""}
               \cup (IF \E w \in fetch_wikipedia(query) : w.answer = ""
                     THEN {Triple("", 0, <<"Web retrieval failed (all APIs exhausted)">>)}
                     ELSE {})
          ELSE {})

\* the set of <<result, cache afterwards>> predict can end with
RetrievalEngine_predict(query, features, c) ==
    LET query_norm == strip(lower(query))
        Put(result) == [k \in DOMAIN c \cup {query_norm} |->
                            IF k = query_norm THEN result ELSE c[k]]
    IN  IF query_norm \in DOMAIN c THEN {<<c[query_norm], c>>}
        ELSE {<<Triple("{document}", best_score, <<"Local KB (Similarity: ", "{best_score}", ")">>),
                Put(Triple("{document}", best_score, <<"Local KB (Similarity: ", "{best_score}", ")">>))>> :
                    best_score \in {s \in LocalScores : s > 40}}
             \cup {<<result, IF result.confidence > 10 THEN Put(result) ELSE c>> :
                    result \in fetch_from_web_apis(query_norm)}

----------------------------------------------------------------------------
(* meta_controller/strategy_selector.py: selection *)

\* the keys of StrategySelector.strategies, in insertion order
Strategies == <<"Rule-Based", "Retrieval", "Classical ML", "Transformer">>

StrategyNames == {Strategies[i] : i \in 1..Len(Strategies)}

\* in hundredths
confidence_threshold == 35

\* base scores in tenths
CAPABILITY_MATRIX ==
    [rule_violation |-> ("Rule-Based" :> 100 @@ "Retrieval" :> 0 @@ "Classical ML" :> 0 @@ "Transformer" :> 0),
     calculation    |-> ("Rule-Based" :> 10 @@ "Retrieval" :> 5 @@ "Classical ML" :> 80 @@ "Transformer" :> 20),
     factual        |-> ("Rule-Based" :> 20 @@ "Retrieval" :> 80 @@ "Classical ML" :> 20 @@ "Transformer" :> 30),
     explanation    |-> ("Rule-Based" :> 5 @@ "Retrieval" :> 40 @@ "Classical ML" :> 10 @@ "Transformer" :> 70),
     reason         |-> ("Rule-Based" :> 0 @@ "Retrieval" :> 30 @@ "Classical ML" :> 10 @@ "Transformer" :> 70),
     general        |-> ("Rule-Based" :> 10 @@ "Retrieval" :> 20 @@ "Classical ML" :> 30 @@ "Transformer" :> 60)]

\* mutant: an intent that is not a key of the matrix gets no row
intent_capabilities_NoFallback(intent) ==
    IF intent \in DOMAIN CAPABILITY_MATRIX THEN CAPABILITY_MATRIX[intent]
    ELSE <<>>

\* CAPABILITY_MATRIX.get(intent, CAPABILITY_MATRIX['general'])
intent_capabilities(intent) ==
    IF intent \in DOMAIN CAPABILITY_MATRIX THEN CAPABILITY_MATRIX[intent]
    ELSE CAPABILITY_MATRIX["general"]

\* mutant: the guard lowers the strategies other than Transformer
base_score_GuardInverted(strategy_name, intent) ==
    IF strategy_name # "Transformer" /\ intent \notin {"explanation", "reason", "general"}
    THEN 1
    ELSE Get(intent_capabilities(intent), strategy_name, 10)

\* in tenths
base_score(strategy_name, intent) ==
    IF strategy_name = "Transformer" /\ intent \notin {"explanation", "reason", "general"}
    THEN 1
    ELSE Get(intent_capabilities(intent), strategy_name, 10)

context_bonus(strategy_name, features) ==
    (IF Get(features, "complexity", "low") = "high" /\ strategy_name = "Transformer" THEN 3
     ELSE IF Get(features, "complexity", "low") = "low"
             /\ strategy_name \in {"Rule-Based", "Classical ML", "Retrieval"} THEN 2
     ELSE 0)
    + (IF Get(features, "has_number", FALSE) /\ strategy_name = "Classical ML" THEN 2 ELSE 0)

\* mutant: the learned weight is left out of the utility
final_utility_Unweighted(strategy_name, features, w) ==
    base_score(strategy_name, Get(features, "intent", "general")) * w.den
    + context_bonus(strategy_name, features) * 10 * w.den

\* (base_score * learned_weight) + context_bonus, times 10 * den of the weights w
final_utility(strategy_name, features, w) ==
    base_score(strategy_name, Get(features, "intent", "general")) * (w.num[strategy_name] * 4)
    + context_bonus(strategy_name, features) * 10 * w.den

\* max(scores, key=scores.get): the first key with the largest score
best_strategy(features, w) ==
    LET score(i) == final_utility(Strategies[i], features, w)
        best == CHOOSE i \in 1..Len(Strategies) :
                    /\ \A j \in 1..Len(Strategies) : score(j) <= score(i)
                    /\ \A j \in 1..(i - 1) : score(j) < score(i)
    IN  Strategies[best]

factual_indicators == {<<"prime", "minister">>, <<"chief", "minister">>, <<"president">>,
                       <<"governor">>, <<"limit">>, <<"minimum">>, <<"maximum">>}

\* mutant: tests the presence of the key, not its value
HardSafetyCheck_KeyPresent(features) == "is_rule_violation" \in DOMAIN features

\* RULE 0 of select_strategy
HardSafetyCheck(features) == Get(features, "is_rule_violation", FALSE)

\* the universal factual lock of select_strategy
FactualLock(features) ==
    \/ Get(features, "intent", "general") = "factual"
    \/ ContainsAny(lower(Get(features, "query", <<>>)), factual_indicators)

\* mutant: the factual lock is tested before the hard safety check
select_strategy_LockFirst(features, w) ==
    IF FactualLock(features) THEN "Retrieval"
    ELSE IF HardSafetyCheck(features) THEN "Rule-Based"
    ELSE best_strategy(features, w)

select_strategy(features, w) ==
    IF HardSafetyCheck(features) THEN "Rule-Based"
    ELSE IF FactualLock(features) THEN "Retrieval"
    ELSE best_strategy(features, w)

----------------------------------------------------------------------------
(* meta_controller/strategy_selector.py: feedback *)

RECURSIVE GCD(_, _)
GCD(a, b) == IF b = 0 THEN a ELSE GCD(b, a % b)

\* the rational weights num[s] / den in lowest terms
Reduce(num, den) ==
    LET g == GCD(GCD(GCD(num["Rule-Based"], num["Retrieval"]),
                     GCD(num["Classical ML"], num["Transformer"])), den)
    IN  [num |-> [s \in StrategyNames |-> num[s] \div g], den |-> den \div g]

SumOf(num) == num["Rule-Based"] + num["Retrieval"] + num["Classical ML"] + num["Transformer"]

\* mutant: the two factors are swapped
Reinforce_Swapped(w, strategy, success) ==
    [num |-> [s \in StrategyNames |->
                IF s = strategy THEN w.num[s] * (IF success THEN 9 ELSE 11) ELSE w.num[s] * 10],
     den |-> w.den * 10]

\* mutant: a failure clears the weight
Reinforce_Clearing(w, strategy, success) ==
    [num |-> [s \in StrategyNames |->
                IF s = strategy THEN w.num[s] * (IF success THEN 11 ELSE 0) ELSE w.num[s] * 10],
     den |-> w.den * 10]

\* mutant: a success leaves the weight as it was
Reinforce_Flat(w, strategy, success) ==
    [num |-> [s \in StrategyNames |->
                IF s = strategy THEN w.num[s] * (IF success THEN 10 ELSE 9) ELSE w.num[s] * 10],
     den |-> w.den * 10]

\* mutant: the weight is moved by a tenth, not by a tenth of itself
Reinforce_Additive(w, strategy, success) ==
    [num |-> [s \in StrategyNames |->
                IF s = strategy
                THEN w.num[s] * 10 + (IF success THEN w.den ELSE 0 - w.den)
                ELSE w.num[s] * 10],
     den |-> w.den * 10]

\* weight *= 1.1 or 0.9
Reinforce(w, strategy, success) ==
    [num |-> [s \in StrategyNames |->
                IF s = strategy THEN w.num[s] * (IF success THEN 11 ELSE 9) ELSE w.num[s] * 10],
     den |-> w.den * 10]

\* mutant: the weights are left as reinforced, not divided by their sum
Normalize_Skipped(w) == Reduce(w.num, w.den)

\* every weight /= sum of the weights
Normalize(w) == Reduce(w.num, SumOf(w.num))

\* mutant: every event is counted as a success
CountFeedback_AlwaysSuccess(counters, strategy, success) ==
    [counters EXCEPT ![strategy] = [total |-> @.total + 1, success |-> @.success + 1]]

\* mutant: only a success is counted
CountFeedback_SuccessOnly(counters, strategy, success) ==
    [counters EXCEPT ![strategy] =
        [total |-> IF success THEN @.total + 1 ELSE @.total,
         success |-> IF success THEN @.success + 1 ELSE @.success]]

CountFeedback(counters, strategy, success) ==
    [counters EXCEPT ![strategy] =
        [total |-> @.total + 1, success |-> IF success THEN @.success + 1 ELSE @.success]]

----------------------------------------------------------------------------
(* meta_controller/strategy_selector.py: execution *)

\* mutant: only the empty string counts as an empty response
IsBlank_EmptyOnly(answer) == answer = ""

IsBlank(answer) == answer \in {"", " "}

\* mutant: the guard asks for more than certainty
RuleGuard_Above(rule) == rule.confidence > 100

\* the zero-latency rule guard
RuleGuard(rule) == rule.confidence >= 90

\* the content presence check
ContentPresenceCheck(strategy_name, result) ==
    IF IsBlank(result.answer)
    THEN Triple("", 0, <<"Empty response from ", strategy_name>>)
    ELSE result

\* mutant: a confidence equal to the threshold counts as below it
BelowThreshold_Inclusive(confidence) == confidence <= confidence_threshold

BelowThreshold(confidence) == confidence < confidence_threshold

\* mutant: a low Transformer attempt falls back to Transformer once more
FactualPolicy_IntentOnly(intent, strategy_name) == intent = "factual"

\* mutant: a low factual attempt falls back to Transformer
FactualPolicy_StrategyOnly(intent, strategy_name) == strategy_name = "Transformer"

\* the factual policy: no fallback for factual queries and Transformer attempts
FactualPolicy(intent, strategy_name) == intent = "factual" \/ strategy_name = "Transformer"

\* mutant: the guard uses the cache's 0.1 instead of 0.2
FailsFinalValidation_Tenth(confidence) == confidence < 10

\* the final validation guard on the fallback's result
FailsFinalValidation(confidence) == confidence < 20

\* one predict call of execute_strategy and what it returned
Called(strategy_name, result) == [strategy |-> strategy_name, result |-> result]

Returned(result, strategy_name, calls, c) ==
    [raised |-> FALSE, answer |-> result.answer, confidence |-> result.confidence,
     reason |-> result.reason, strategy |-> strategy_name, calls |-> calls, cache |-> c]

Raised(error, calls, c) ==
    [raised |-> TRUE, answer |-> "", confidence |-> 0, reason |-> <<error>>,
     strategy |-> "", calls |-> calls, cache |-> c]

\* self.strategies[strategy_name].predict(query, features):
\* the set of <<result, cache afterwards>> the call can end with
Predict(strategy_name, query, features, c) ==
    CASE strategy_name = "Rule-Based" -> {<<RuleEngine_predict(query, features), c>>}
      [] strategy_name = "Retrieval" -> RetrievalEngine_predict(query, features, c)
      [] strategy_name = "Classical ML" -> {<<r, c>> : r \in MLEngine_predict(query, features)}
      [] strategy_name = "Transformer" -> {<<r, c>> : r \in TransformerEngine_predict(query, features)}

\* mutant: the final validation guard lets every fallback result through
FinalValidation_Passing(f, calls) ==
    Returned(f[1], "Transformer", Append(calls, Called("Transformer", f[1])), f[2])

\* the final validation guard on what the fallback's predict returned
FinalValidation(f, calls) ==
    IF FailsFinalValidation(f[1].confidence)
    THEN Returned(Triple(SAFE_FAILURE, 0,
                         <<"Safe Failure: High Hallucination Risk (">> \o f[1].reason \o <<")">>),
                  "Transformer", Append(calls, Called("Transformer", f[1])), f[2])
    ELSE Returned(f[1], "Transformer", Append(calls, Called("Transformer", f[1])), f[2])

\* the fallback to Transformer and the final validation guard
Fallback(query, features, calls, c) ==
    {FinalValidation(f, calls) : f \in Predict("Transformer", query, features, c)}

\* what follows the primary strategy's predict, fallback being the outcomes
\* of the fallback to Transformer
GuardrailsOn(strategy_name, features, primary, calls, c, fallback) ==
    LET result == ContentPresenceCheck(strategy_name, primary) IN
    IF BelowThreshold(result.confidence)
    THEN IF FactualPolicy(Get(features, "intent", "general"), strategy_name)
         THEN {Returned(Triple(SAFE_FAILURE, 0, <<"Safe Failure: Confidence below threshold">>),
                        strategy_name, calls, c)}
         ELSE fallback
    ELSE {Returned(result, strategy_name, calls, c)}

\* what follows the primary strategy's predict
Guardrails(strategy_name, query, features, primary, calls, c) ==
    GuardrailsOn(strategy_name, features, primary, calls, c,
                 Fallback(query, features, calls, c))

\* the set of outcomes execute_strategy can end with, started with cache c
execute_strategy(strategy_name, query, features, c) ==
    LET rule == RuleEngine_predict(query, features) IN
    IF RuleGuard(rule) THEN {Returned(rule, "Rule-Based", <<Called("Rule-Based", rule)>>, c)}
    ELSE IF strategy_name \notin StrategyNames
    THEN {Raised("KeyError", <<Called("Rule-Based", rule)>>, c)}
    ELSE UNION {Guardrails(strategy_name, query, features, p[1],
                           <<Called("Rule-Based", rule), Called(strategy_name, p[1])>>, p[2]) :
                    p \in Predict(strategy_name, query, features, c)}

----------------------------------------------------------------------------
(* feedback/experience_store.py, in-memory store *)

store_experience(store, query, out, features) ==
    Append(store,
           [id |-> Len(store) + 1, query |-> query, strategy |-> out.strategy,
            confidence |-> out.confidence, answer |-> out.answer, reason |-> out.reason,
            feedback |-> {}, timestamp |-> Len(store) + 1, features |-> features])

----------------------------------------------------------------------------
(* Inputs *)

IntentValues == DOMAIN CAPABILITY_MATRIX \cup {"smalltalk"}

\* the four feature records of the selector's __main__ block
MainFeatures ==
    {[is_rule_violation |-> TRUE, intent |-> "rule_violation"],
     [intent |-> "factual", complexity |-> "low"],
     [intent |-> "explanation", complexity |-> "high"],
     [intent |-> "calculation", has_number |-> TRUE]}

\* the query texts of hand-made feature records: the empty text and the single words
FeatureQueries == {<<>>} \cup {<<w>> : w \in Words}

FeatureRecords ==
    [query : FeatureQueries, has_number : BOOLEAN, intent : IntentValues,
     complexity : {"low", "high"}, is_rule_violation : BOOLEAN]
    \cup MainFeatures

\* the feature record of a query, with any intent
ExecuteFeatures(query) == {[analyze(query) EXCEPT !.intent = intent] : intent \in IntentValues}

StrategyArguments == StrategyNames \cup {"Unknown"}

NoOutcome ==
    [raised |-> FALSE, answer |-> "", confidence |-> 0, reason |-> <<>>, strategy |-> "",
     calls |-> <<>>]

Outcome(o) ==
    [raised |-> o.raised, answer |-> o.answer, confidence |-> o.confidence,
     reason |-> o.reason, strategy |-> o.strategy, calls |-> o.calls]

----------------------------------------------------------------------------
(* State machine *)

TotalFeedback ==
    strategy_success["Rule-Based"].total + strategy_success["Retrieval"].total
    + strategy_success["Classical ML"].total + strategy_success["Transformer"].total

Pending(op, query, features, strategy_name) ==
    [op |-> op, query |-> query, features |-> features, selected |-> strategy_name,
     out |-> NoOutcome]

\* the state after the construction of the analyzer, the store and the selector
Constructed ==
    /\ strategy_weights = [num |-> [s \in StrategyNames |-> 1], den |-> 1]
    /\ strategy_success = [s \in StrategyNames |-> [success |-> 0, total |-> 0]]
    /\ simulation_mode \in BOOLEAN
    /\ cache = <<>>
    /\ memory_store = <<>>
    /\ pc = "ready"

\* the constructed state and the query of one /respond request
Init ==
    /\ Constructed
    /\ \E query \in Queries : call = Pending("respond", query, <<>>, "")

\* the constructed state and the argument of one select_strategy call
InitSelect ==
    /\ Constructed
    /\ \E features \in FeatureRecords : call = Pending("select", <<>>, features, "")

\* the constructed state and the arguments of one execute_strategy call
InitExecute ==
    /\ Constructed
    /\ \E strategy_name \in StrategyArguments, query \in Queries :
          \E features \in ExecuteFeatures(query) :
              call = Pending("execute", query, features, strategy_name)

\* StrategySelector.update_from_feedback, for at most limit events
UpdateFromFeedback(strategy, success, limit) ==
    /\ pc = "ready"
    /\ TotalFeedback < limit
    /\ strategy_success' = CountFeedback(strategy_success, strategy, success)
    /\ strategy_weights' = Normalize(Reinforce(strategy_weights, strategy, success))
    /\ UNCHANGED <<simulation_mode, cache, memory_store, pc, call>>

\* StrategySelector.select_strategy
SelectStrategy ==
    /\ pc = "ready"
    /\ call.op = "select"
    /\ call' = [call EXCEPT !.selected = select_strategy(call.features, strategy_weights)]
    /\ pc' = "done"
    /\ UNCHANGED <<strategy_weights, strategy_success, simulation_mode, cache, memory_store>>

\* StrategySelector.execute_strategy
ExecuteStrategy ==
    /\ pc = "ready"
    /\ call.op = "execute"
    /\ \E o \in execute_strategy(call.selected, call.query, call.features, cache) :
          /\ cache' = o.cache
          /\ call' = [call EXCEPT !.out = Outcome(o)]
    /\ pc' = "done"
    /\ UNCHANGED <<strategy_weights, strategy_success, simulation_mode, memory_store>>

\* mutant: the request also rewards the strategy that answered
Respond_Learns ==
    /\ pc = "ready"
    /\ call.op = "respond"
    /\ \E features \in {analyze(call.query)} :
       \E selected \in {select_strategy(features, strategy_weights)} :
       \E o \in execute_strategy(selected, call.query, features, cache) :
          /\ cache' = o.cache
          /\ memory_store' = IF o.raised THEN memory_store
                             ELSE store_experience(memory_store, call.query, o, features)
          /\ call' = [call EXCEPT !.features = features, !.selected = selected,
                                  !.out = Outcome(o)]
          /\ strategy_weights' = IF o.raised THEN strategy_weights
                                 ELSE Normalize(Reinforce(strategy_weights, o.strategy, TRUE))
    /\ pc' = "done"
    /\ UNCHANGED <<strategy_success, simulation_mode>>

\* app.generate_response: analyze, select, execute, store
Respond ==
    /\ pc = "ready"
    /\ call.op = "respond"
    /\ \E features \in {analyze(call.query)} :
       \E selected \in {select_strategy(features, strategy_weights)} :
       \E o \in execute_strategy(selected, call.query, features, cache) :
          /\ cache' = o.cache
          /\ memory_store' = IF o.raised THEN memory_store
                             ELSE store_experience(memory_store, call.query, o, features)
          /\ call' = [call EXCEPT !.features = features, !.selected = selected,
                                  !.out = Outcome(o)]
    /\ pc' = "done"
    /\ UNCHANGED <<strategy_weights, strategy_success, simulation_mode>>

Feedback(limit) ==
    \E strategy \in StrategyNames, success \in BOOLEAN :
        UpdateFromFeedback(strategy, success, limit)

\* feedback events, then the /respond request
Next == Feedback(MaxRequestFeedback) \/ Respond

Spec == Init /\ [][Next]_vars

\* feedback events, then the select_strategy call
NextSelect == Feedback(MaxFeedback) \/ SelectStrategy

SpecSelect == InitSelect /\ [][NextSelect]_vars

\* the execute_strategy call
NextExecute == ExecuteStrategy

SpecExecute == InitExecute /\ [][NextExecute]_vars

\* the constructed state before a run of update_from_feedback calls
InitLearn ==
    /\ Constructed
    /\ call = Pending("learn", <<>>, <<>>, "")

\* the update_from_feedback calls of the run
NextLearn == Feedback(MaxLearn)

SpecLearn == InitLearn /\ [][NextLearn]_vars

----------------------------------------------------------------------------
(* app.py: submit_feedback, with the in-memory store *)

\* the limit of the get_recent_experiences call of submit_feedback
RecentLimit == 100

\* ExperienceStore.update_feedback: <<found, the store afterwards>>
update_feedback(store, experience_id, feedback) ==
    IF \E i \in 1..Len(store) : store[i].id = experience_id
    THEN LET first == CHOOSE i \in 1..Len(store) :
                          /\ store[i].id = experience_id
                          /\ \A j \in 1..(i - 1) : store[j].id # experience_id
         IN  <<TRUE, [store EXCEPT ![first].feedback = feedback]>>
    ELSE <<FALSE, store>>

\* sorted(store, key=timestamp, reverse=True)[:limit]: store_experience
\* appends with the time of the call, so the store is in ascending order of
\* timestamp and the sorted list is the store from its last element backwards
get_recent_experiences(store, limit) ==
    [i \in 1..(IF Len(store) < limit THEN Len(store) ELSE limit) |->
        store[Len(store) + 1 - i]]

\* one call of update_from_feedback made by submit_feedback
Update(strategy, success) == [strategy |-> strategy, success |-> success]

\* the for loop of submit_feedback: the update_from_feedback calls it makes
FeedbackUpdates(recent, request) ==
    IF \E i \in 1..Len(recent) : recent[i].id = request.experience_id
    THEN LET first == CHOOSE i \in 1..Len(recent) :
                          /\ recent[i].id = request.experience_id
                          /\ \A j \in 1..(i - 1) : recent[j].id # request.experience_id
         IN  <<Update(recent[first].strategy, request.feedback = 1)>>
    ELSE <<>>

\* update_from_feedback for each call of a sequence of at most one call
ApplyUpdates(updates, w, counters) ==
    IF updates = <<>> THEN [weights |-> w, success |-> counters]
    ELSE [weights |-> Normalize(Reinforce(w, updates[1].strategy, updates[1].success)),
          success |-> CountFeedback(counters, updates[1].strategy, updates[1].success)]

\* submit_feedback: the response, the update_from_feedback calls made, and
\* the store, the weights and the counters afterwards
submit_feedback(request, store, w, counters) ==
    LET updated == update_feedback(store, request.experience_id, request.feedback)
        updates == FeedbackUpdates(get_recent_experiences(updated[2], RecentLimit), request)
        applied == ApplyUpdates(updates, w, counters)
    IN  IF ~updated[1]
        THEN [status |-> "Experience not found", updates |-> <<>>, store |-> store, weights |-> w,
              success |-> counters]
        ELSE [status |-> "success", updates |-> updates, store |-> updated[2],
              weights |-> applied.weights, success |-> applied.success]

\* what execute_strategy returned for the experiences of a strategy
ExperienceOf(strategy) ==
    CASE strategy = "Rule-Based" ->
            [query |-> <<"help">>,
             out |-> Returned(RuleEngine_predict(<<"help">>, analyze(<<"help">>)), strategy, <<>>, <<>>)]
      [] strategy = "Retrieval" ->
            [query |-> <<"kerala">>,
             out |-> Returned(Triple("{abstract}", 85, <<"Web Retrieval (DuckDuckGo IA)">>),
                              strategy, <<>>, <<>>)]
      [] strategy = "Classical ML" ->
            [query |-> <<"kerala">>,
             out |-> Returned(Triple("This is a {intent} query.", 90, <<"ML Intent: ", "{intent}">>),
                              strategy, <<>>, <<>>)]
      [] strategy = "Transformer" ->
            [query |-> <<"kerala">>,
             out |-> Returned(Triple("{generated sentences}.", 85, <<"Generated by Flan-T5 Transformer">>),
                              strategy, <<>>, <<>>)]

\* the store after n /respond requests answered by strategy a (the odd ones)
\* and strategy b (the even ones): the i-th experience is the one
\* store_experience appends to a store of i - 1 experiences
StoreOf(n, a, b) ==
    [i \in 1..n |->
        LET e == ExperienceOf(IF i % 2 = 1 THEN a ELSE b)
        IN  store_experience([k \in 1..(i - 1) |-> k], e.query, e.out, analyze(e.query))[i]]

\* the store sizes of interest: empty, small, and around the limit
StoreSizes == {0, 1, 3, RecentLimit, MaxStore}

\* the strategy after a strategy, in the order of the registry
NextStrategy(strategy) ==
    LET i == CHOOSE k \in 1..Len(Strategies) : Strategies[k] = strategy
    IN  Strategies[(i % Len(Strategies)) + 1]

Stores == {StoreOf(n, a, NextStrategy(a)) : n \in StoreSizes, a \in StrategyNames}

\* the experience ids of the requests: the oldest ones, the newest one and
\* one that was never stored
RequestIds(store) == {1, 2, 3, Len(store), Len(store) + 1}

\* FeedbackRequest: feedback is 1 for helpful, 0 for not helpful
FeedbackRequests(store) ==
    [experience_id : RequestIds(store), feedback : {0, 1}, status : {"pending"},
     updates : {<<>>}]

\* the feedback events before the requests: none or one
PriorEvents ==
    {<<>>} \cup {<<Update(strategy, success)>> : strategy \in StrategyNames, success \in BOOLEAN}

\* the state after some /respond requests and feedback events, and one or two
\* /feedback requests in flight
InitFeedback ==
    /\ simulation_mode \in BOOLEAN
    /\ cache = <<>>
    /\ pc = "ready"
    /\ memory_store \in Stores
    /\ \E prior \in PriorEvents :
          \E before \in {ApplyUpdates(prior, [num |-> [s \in StrategyNames |-> 1], den |-> 1],
                                       [s \in StrategyNames |-> [success |-> 0, total |-> 0]])} :
              /\ strategy_weights = before.weights
              /\ strategy_success = before.success
              /\ \E n \in 1..2 : \E requests \in [1..n -> FeedbackRequests(memory_store)] :
                    call = [op |-> "feedback", requests |-> requests, before |-> before]

\* the handler of one /feedback request; it runs without awaiting anything,
\* so the event loop runs it as one step
SubmitFeedback(i) ==
    /\ pc = "ready"
    /\ call.op = "feedback"
    /\ i \in DOMAIN call.requests
    /\ call.requests[i].status = "pending"
    /\ \E r \in {submit_feedback(call.requests[i], memory_store, strategy_weights,
                                  strategy_success)} :
          /\ memory_store' = r.store
          /\ strategy_weights' = r.weights
          /\ strategy_success' = r.success
          /\ call' = [call EXCEPT !.requests[i].status = r.status,
                                  !.requests[i].updates = r.updates]
    /\ pc' = IF \A j \in DOMAIN call.requests \ {i} : call.requests[j].status # "pending"
             THEN "done" ELSE "ready"
    /\ UNCHANGED <<simulation_mode, cache>>

\* the /feedback requests in flight, served in any order
NextFeedback == \E i \in 1..2 : SubmitFeedback(i)

SpecFeedback == InitFeedback /\ [][NextFeedback]_vars

----------------------------------------------------------------------------
(* learners/retrieval_engine.py: the steps of predict *)

\* the queries of the observed predict calls: two spellings of each of two
\* normalized queries
RetrieveQueries == {<<"kerala">>, <<" ", "kerala">>, <<"What">>, <<"What", " ">>}

\* query_norm = query.lower().strip(), the key of the cache
query_norm_Raw(query) == query

query_norm(query) == strip(lower(query))

\* what a request or the vector search can raise: requests.exceptions.Timeout,
\* requests.exceptions.ConnectionError, the ValueError of response.json() on
\* a payload that is not JSON, the AttributeError of data.get on a payload
\* that is not an object
Exceptions == {"Timeout", "ConnectionError", "JSONDecodeError", "AttributeError"}

\* the except clauses of the engine: except requests.exceptions.Timeout, and
\* except Exception
Caught_TimeoutOnly(exception) == exception = "Timeout"

Caught(exception) == exception = "Timeout" \/ exception \in Exceptions

\* the vector search of a query: it raises, or it gives the best cosine
\* similarity (0.30, 0.40 or 0.41)
LocalSearches ==
    {[raises |-> TRUE, best_score |-> 0]}
    \cup {[raises |-> FALSE, best_score |-> s] : s \in {30} \cup LocalScores}

\* if best_score > 0.4
LocalMatch_Inclusive(best_score) == best_score >= 40

LocalMatch(best_score) == best_score > 40

\* the tuple returned for a local match
LocalResult(best_score) ==
    Triple("{document}", best_score, <<"Local KB (Similarity: ", "{best_score}", ")">>)

\* if result[1] > 0.1: the web results that are cached
Cacheable_Always(result) == TRUE

Cacheable(result) == result.confidence > 10

\* mutant: the cache holds the result written last and nothing else
Put_Only(c, key, result) == [k \in {key} |-> result]

\* self.cache[key] = result
Put(c, key, result) == [k \in DOMAIN c \cup {key} |-> IF k = key THEN result ELSE c[k]]

\* what the DuckDuckGo request ends with: an exception, a status other than
\* 200, a payload with no answer, with an answer, with an answer of blanks
DuckDuckGoOutcomes == Exceptions \cup {"status 500", "no answer", "answer", "blank answer"}

\* what _fetch_duckduckgo returns
duckduckgo_result(outcome) ==
    CASE outcome = "answer" -> Triple("{abstract}", 85, <<"Web Retrieval (DuckDuckGo IA)">>)
      [] outcome = "blank answer" -> Triple(" ", 85, <<"Web Retrieval (DuckDuckGo IA)">>)
      [] OTHER -> Triple("", 0, <<"DuckDuckGo unavailable">>)

\* what the direct lookup of a Wikipedia summary ends with: an exception,
\* status 200 with or without an extract, status 404, another status
LookupOutcomes ==
    Exceptions \cup {"status 500", "no extract", "extract", "empty extract", "status 404"}

\* what _fetch_wikipedia returns after a direct lookup that is not a 404
wikipedia_result(outcome) ==
    CASE outcome = "extract" -> Triple("{extract}", 90, <<"Wikipedia: ", "{title}">>)
      [] outcome = "empty extract" -> Triple("", 90, <<"Wikipedia: ", "{title}">>)
      [] OTHER -> Triple("", 0, <<"Wikipedia unavailable">>)

\* what the request to the search API ends with: an exception, a status other
\* than 200, no search result, or the title of the first search result
SearchOutcomes == Exceptions \cup {"status 500", "no result", "title"}

\* what _fetch_from_web_apis returns for the result of the last provider
web_result(result) ==
    IF result.answer # "" THEN result
    ELSE Triple("", 0, <<"Web retrieval failed (all APIs exhausted)">>)

\* one step of a predict call: the tier consulted and what came of it
Event(tier, outcome) == [tier |-> tier, outcome |-> outcome]

\* the observed predict calls, the knowledge base they search, and the first
\* call at its first line
InitRetrieve ==
    /\ Constructed
    /\ \E queries \in [1..2 -> RetrieveQueries] :
       \E documents \in BOOLEAN :
       \E search \in [{query_norm(queries[i]) : i \in 1..2} -> LocalSearches] :
          call = [op |-> "retrieve", queries |-> queries, documents |-> documents,
                  search |-> search, n |-> 1, at |-> "predict", trace |-> <<>>,
                  results |-> <<>>, raised |-> FALSE]

\* the query of the predict call under way
Query == call.queries[call.n]

\* the steps of the predict call under way, with one more
Traced(event) == Append(call.trace, event)

\* the direct lookups of Wikipedia summaries among the steps of a call
Lookups(trace) == Cardinality({i \in DOMAIN trace : trace[i].tier = "wikipedia"})

\* predict goes on to the next of its steps
GoTo(at, trace) ==
    /\ call' = [call EXCEPT !.at = at, !.trace = trace]
    /\ UNCHANGED <<cache, pc>>

\* predict returns result, after writing it to the cache if store holds; the
\* next predict call, if any, is then at its first line
Return(result, trace, store) ==
    /\ cache' = IF store THEN Put(cache, query_norm(Query), result) ELSE cache
    /\ call' = [call EXCEPT !.results = Append(@, result),
                            !.trace = trace,
                            !.at = IF call.n < Len(call.queries) THEN "predict" ELSE "returned",
                            !.n = IF call.n < Len(call.queries) THEN @ + 1 ELSE @]
    /\ pc' = IF call.n < Len(call.queries) THEN "ready" ELSE "done"

\* an exception leaves predict
Raise(trace) ==
    /\ call' = [call EXCEPT !.raised = TRUE, !.trace = trace, !.at = "raised"]
    /\ pc' = "done"
    /\ UNCHANGED cache

\* lines 89-95: the result of _fetch_from_web_apis is cached if its
\* confidence is above 0.1, and returned
ReturnWeb(result, trace) == Return(result, trace, Cacheable(result))

\* the step of predict under way is at
At(at) == pc = "ready" /\ call.op = "retrieve" /\ call.at = at

\* predict, lines 58-63: the cache lookup
CacheLookup ==
    /\ At("predict")
    /\ IF query_norm(Query) \in DOMAIN cache
       THEN Return(cache[query_norm(Query)], <<Event("cache", "hit")>>, FALSE)
       ELSE GoTo("local", <<Event("cache", "miss")>>)
    /\ UNCHANGED <<strategy_weights, strategy_success, simulation_mode, memory_store>>

\* predict, lines 66-84: the search of the local knowledge base, skipped when
\* no document was loaded.  The vectorizer lowercases the query and splits it
\* into words, so the score is that of the normalized query.
LocalSearch ==
    /\ At("local")
    /\ \E found \in {call.search[query_norm(Query)]} :
          IF ~call.documents THEN GoTo("duckduckgo", call.trace)
          ELSE IF found.raises
          THEN IF Caught("AttributeError")
               THEN GoTo("duckduckgo", Traced(Event("local", "AttributeError")))
               ELSE Raise(Traced(Event("local", "AttributeError")))
          ELSE IF LocalMatch(found.best_score)
          THEN Return(LocalResult(found.best_score), Traced(Event("local", "match")), TRUE)
          ELSE GoTo("duckduckgo", Traced(Event("local", "no match")))
    /\ UNCHANGED <<strategy_weights, strategy_success, simulation_mode, memory_store>>

\* _fetch_from_web_apis, lines 103-105, with _fetch_duckduckgo
FetchDuckDuckGo ==
    /\ At("duckduckgo")
    /\ \E outcome \in DuckDuckGoOutcomes :
       \E trace \in {Traced(Event("duckduckgo", outcome))} :
          IF outcome \in Exceptions /\ ~Caught(outcome) THEN Raise(trace)
          ELSE IF duckduckgo_result(outcome).answer # ""
          THEN ReturnWeb(duckduckgo_result(outcome), trace)
          ELSE GoTo("wikipedia", trace)
    /\ UNCHANGED <<strategy_weights, strategy_success, simulation_mode, memory_store>>

\* _fetch_wikipedia, lines 139-157: the direct lookup of the summary of the
\* search term, or of the title the search API gave
FetchWikipedia ==
    /\ At("wikipedia")
    /\ \E outcome \in LookupOutcomes :
       \E trace \in {Traced(Event("wikipedia", outcome))} :
          IF outcome \in Exceptions /\ ~Caught(outcome) THEN Raise(trace)
          ELSE IF outcome = "status 404" THEN GoTo("search", trace)
          ELSE ReturnWeb(web_result(wikipedia_result(outcome)), trace)
    /\ UNCHANGED <<strategy_weights, strategy_success, simulation_mode, memory_store>>

\* _fetch_wikipedia, lines 158-171: the search API after a 404, and the call
\* of _fetch_wikipedia with the title it gave; the search gives a title only
\* while fewer than MaxLookups direct lookups were made
SearchWikipedia ==
    /\ At("search")
    /\ \E outcome \in SearchOutcomes :
       \E trace \in {Traced(Event("search", outcome))} :
          /\ outcome = "title" => Lookups(call.trace) < MaxLookups
          /\ IF outcome \in Exceptions /\ ~Caught(outcome) THEN Raise(trace)
             ELSE IF outcome = "title" THEN GoTo("wikipedia", trace)
             ELSE ReturnWeb(web_result(wikipedia_result(outcome)), trace)
    /\ UNCHANGED <<strategy_weights, strategy_success, simulation_mode, memory_store>>

\* the steps of the predict calls
NextRetrieve ==
    CacheLookup \/ LocalSearch \/ FetchDuckDuckGo \/ FetchWikipedia \/ SearchWikipedia

SpecRetrieve == InitRetrieve /\ [][NextRetrieve]_vars

-----------------------------------------------------------------------------
(* meta_controller/strategy_selector.py: execute_strategy over strategies  *)
(* of which only the predict contract is known                             *)

\* the answers and the confidences, in hundredths, a predict call returns
ContractAnswers == {"", " ", "An answer."}

ContractConfidences == {0, 19, 20, 34, 35, 89, 90}

ContractResults ==
    {Triple(answer, confidence, <<"stub">>) :
        answer \in ContractAnswers, confidence \in ContractConfidences}

\* the intents of the features handed to execute_strategy
ContractIntents == {"factual", "general"}

\* execute_strategy when the three predict calls it can make return predicted.rule,
\* predicted.primary and predicted.fallback
execute_strategy_with(strategy_name, features, predicted, c) ==
    LET rule == predicted.rule IN
    IF RuleGuard(rule) THEN {Returned(rule, "Rule-Based", <<Called("Rule-Based", rule)>>, c)}
    ELSE IF strategy_name \notin StrategyNames
    THEN {Raised("KeyError", <<Called("Rule-Based", rule)>>, c)}
    ELSE GuardrailsOn(strategy_name, features, predicted.primary,
                      <<Called("Rule-Based", rule), Called(strategy_name, predicted.primary)>>, c,
                      {FinalValidation(<<predicted.fallback, c>>,
                                       <<Called("Rule-Based", rule),
                                         Called(strategy_name, predicted.primary)>>)})

InitContract ==
    /\ Constructed
    /\ \E strategy_name \in StrategyArguments, intent \in ContractIntents,
          rule \in ContractResults, primary \in ContractResults, fallback \in ContractResults :
          call = [op |-> "contract", query |-> <<>>, features |-> [intent |-> intent],
                  selected |-> strategy_name, out |-> NoOutcome,
                  predicted |-> [rule |-> rule, primary |-> primary, fallback |-> fallback]]

\* StrategySelector.execute_strategy, the strategies being stubs
ExecuteContract ==
    /\ pc = "ready"
    /\ call.op = "contract"
    /\ \E o \in execute_strategy_with(call.selected, call.features, call.predicted, cache) :
          /\ cache' = o.cache
          /\ call' = [call EXCEPT !.out = Outcome(o)]
    /\ pc' = "done"
    /\ UNCHANGED <<strategy_weights, strategy_success, simulation_mode, memory_store>>

NextContract == ExecuteContract

SpecContract == InitContract /\ [][NextContract]_vars

----------------------------------------------------------------------------
(* meta_controller/strategy_selector.py: the weights as the floats stored *)

\* The interpreter holds a weight as a binary64 value and rounds every
\* product, sum and quotient of update_from_feedback to the nearest one.

\* A natural number is held as limbs of 14 bits, least significant first: four
\* limbs for a significand, eight for a product or an aligned sum.
Limb8(a, k) == IF k \in 1..8 THEN a[k] ELSE 0

Wide(a) == <<a[1], a[2], a[3], a[4], 0, 0, 0, 0>>

Narrow(a) == <<a[1], a[2], a[3], a[4]>>

\* a + b
Add8(a, b) ==
    LET s1 == a[1] + b[1]
        s2 == a[2] + b[2] + s1 \div 2^14
        s3 == a[3] + b[3] + s2 \div 2^14
        s4 == a[4] + b[4] + s3 \div 2^14
        s5 == a[5] + b[5] + s4 \div 2^14
        s6 == a[6] + b[6] + s5 \div 2^14
        s7 == a[7] + b[7] + s6 \div 2^14
        s8 == a[8] + b[8] + s7 \div 2^14
    IN  <<s1 % 2^14, s2 % 2^14, s3 % 2^14, s4 % 2^14,
          s5 % 2^14, s6 % 2^14, s7 % 2^14, s8 % 2^14>>

\* a - b for a >= b
Sub8(a, b) ==
    LET d1 == a[1] - b[1]
        d2 == a[2] - b[2] - (IF d1 < 0 THEN 1 ELSE 0)
        d3 == a[3] - b[3] - (IF d2 < 0 THEN 1 ELSE 0)
        d4 == a[4] - b[4] - (IF d3 < 0 THEN 1 ELSE 0)
        d5 == a[5] - b[5] - (IF d4 < 0 THEN 1 ELSE 0)
        d6 == a[6] - b[6] - (IF d5 < 0 THEN 1 ELSE 0)
        d7 == a[7] - b[7] - (IF d6 < 0 THEN 1 ELSE 0)
        d8 == a[8] - b[8] - (IF d7 < 0 THEN 1 ELSE 0)
    IN  <<(d1 + 2^14) % 2^14, (d2 + 2^14) % 2^14, (d3 + 2^14) % 2^14, (d4 + 2^14) % 2^14,
          (d5 + 2^14) % 2^14, (d6 + 2^14) % 2^14, (d7 + 2^14) % 2^14, d8>>

\* a >= b
Ge8(a, b) ==
    LET top == CHOOSE k \in 0..8 : /\ k > 0 => a[k] # b[k]
                                   /\ \A j \in (k + 1)..8 : a[j] = b[j]
    IN  top = 0 \/ a[top] > b[top]

\* a * c for one limb c
MulLimb8(a, c) ==
    LET p1 == a[1] * c
        p2 == a[2] * c + p1 \div 2^14
        p3 == a[3] * c + p2 \div 2^14
        p4 == a[4] * c + p3 \div 2^14
        p5 == a[5] * c + p4 \div 2^14
        p6 == a[6] * c + p5 \div 2^14
        p7 == a[7] * c + p6 \div 2^14
        p8 == a[8] * c + p7 \div 2^14
    IN  <<p1 % 2^14, p2 % 2^14, p3 % 2^14, p4 % 2^14,
          p5 % 2^14, p6 % 2^14, p7 % 2^14, p8 % 2^14>>

\* a * b, of two numbers of four limbs
Mul4(a, b) ==
    LET c1 == a[1] * b[1]
        c2 == a[1] * b[2] + a[2] * b[1] + c1 \div 2^14
        c3 == a[1] * b[3] + a[2] * b[2] + a[3] * b[1] + c2 \div 2^14
        c4 == a[1] * b[4] + a[2] * b[3] + a[3] * b[2] + a[4] * b[1] + c3 \div 2^14
        c5 == a[2] * b[4] + a[3] * b[3] + a[4] * b[2] + c4 \div 2^14
        c6 == a[3] * b[4] + a[4] * b[3] + c5 \div 2^14
        c7 == a[4] * b[4] + c6 \div 2^14
    IN  <<c1 % 2^14, c2 % 2^14, c3 % 2^14, c4 % 2^14,
          c5 % 2^14, c6 % 2^14, c7 % 2^14, c7 \div 2^14>>

\* a * 2^d
ShiftLeft8(a, d) ==
    LET limbs == d \div 14
        bits == d % 14
        at(k) == ((Limb8(a, k - limbs) * 2^bits) % 2^14)
                 + (Limb8(a, k - limbs - 1) \div 2^(14 - bits))
    IN  <<at(1), at(2), at(3), at(4), at(5), at(6), at(7), at(8)>>

\* a \div 2^r
ShiftRight8(a, r) ==
    LET limbs == r \div 14
        bits == r % 14
        at(k) == (Limb8(a, k + limbs) \div 2^bits)
                 + ((Limb8(a, k + limbs + 1) % 2^bits) * 2^(14 - bits))
    IN  <<at(1), at(2), at(3), at(4), at(5), at(6), at(7), at(8)>>

\* a % 2^r = 0
LowZero8(a, r) ==
    LET limbs == r \div 14
        bits == r % 14
    IN  /\ \A k \in 1..limbs : a[k] = 0
        /\ Limb8(a, limbs + 1) % 2^bits = 0

\* bit i of a, bit 0 the least significant
Bit8(a, i) ==
    LET limbs == i \div 14
        bits == i % 14
    IN  (Limb8(a, limbs + 1) \div 2^bits) % 2

\* the number of bits of a > 0
BitLength8(a) ==
    LET top == CHOOSE k \in 1..8 : a[k] # 0 /\ \A j \in (k + 1)..8 : a[j] = 0
        bits == CHOOSE n \in 1..14 : 2^(n - 1) <= a[top] /\ a[top] < 2^n
    IN  14 * (top - 1) + bits

\* the binary64 value m * 2^e with 2^52 <= m < 2^53
Binary64(m, e) == [m |-> m, e |-> e]

\* the binary64 value nearest to p * 2^e, or to a value just above it when
\* inexact is set; ties go to the even significand
RoundToNearestEven(p, e, inexact) ==
    LET len == BitLength8(p)
    IN  IF len <= 53
        THEN Binary64(Narrow(ShiftLeft8(p, 53 - len)), e - (53 - len))
        ELSE LET r == len - 53
                 q == ShiftRight8(p, r)
                 up == /\ Bit8(p, r - 1) = 1
                       /\ inexact \/ ~LowZero8(p, r - 1) \/ q[1] % 2 = 1
                 rounded == IF up THEN Add8(q, <<1, 0, 0, 0, 0, 0, 0, 0>>) ELSE q
             IN  IF BitLength8(rounded) = 54
                 THEN Binary64(Narrow(ShiftRight8(rounded, 1)), e + r + 1)
                 ELSE Binary64(Narrow(rounded), e + r)

\* x * y
Multiply64(x, y) == RoundToNearestEven(Mul4(x.m, y.m), x.e + y.e, FALSE)

\* x + y
Add64(x, y) ==
    LET hi == IF x.e >= y.e THEN x ELSE y
        lo == IF x.e >= y.e THEN y ELSE x
    IN  IF hi.e - lo.e >= 54 THEN hi
        ELSE RoundToNearestEven(Add8(ShiftLeft8(Wide(hi.m), hi.e - lo.e), Wide(lo.m)),
                                lo.e, FALSE)

\* one step of the long division by d, whose fourth limb is 2^13 or more, of
\* rest < d: the next limb of the quotient and the next rest
DivisionStep(rest, d) ==
    LET shifted == ShiftLeft8(rest, 14)
        guess == (shifted[5] * 2^14 + shifted[4]) \div d[4]
        estimate == IF guess > 2^14 - 1 THEN 2^14 - 1 ELSE guess
        limb == CHOOSE c \in (estimate - 2)..estimate :
                    /\ c >= 0
                    /\ Ge8(shifted, MulLimb8(d, c))
                    /\ ~Ge8(shifted, MulLimb8(d, c + 1))
    IN  <<limb, Sub8(shifted, MulLimb8(d, limb))>>

\* x / y: the long division of x.m * 2^56 by y.m, four limbs after the first bit
Divide64(x, y) ==
    LET d == ShiftLeft8(Wide(y.m), 3)
        n == ShiftLeft8(Wide(x.m), 3)
        first == IF Ge8(n, d) THEN <<1, Sub8(n, d)>> ELSE <<0, n>>
        second == DivisionStep(first[2], d)
        third == DivisionStep(second[2], d)
        fourth == DivisionStep(third[2], d)
        fifth == DivisionStep(fourth[2], d)
    IN  RoundToNearestEven(<<fifth[1], fourth[1], third[1], second[1], first[1], 0, 0, 0>>,
                           x.e - y.e - 56, fifth[2] # <<0, 0, 0, 0, 0, 0, 0, 0>>)

\* the stored weights as binary64 values, in the order of the strategies
ConstructedWeights64 ==
    <<Binary64(<<0, 0, 0, 1024>>, -52), Binary64(<<0, 0, 0, 1024>>, -52),
      Binary64(<<0, 0, 0, 1024>>, -52), Binary64(<<0, 0, 0, 1024>>, -52)>>

\* the literals 1.1 and 0.9
Factor64(success) ==
    IF success THEN Binary64(<<6554, 9830, 6553, 1126>>, -52)
    ELSE Binary64(<<3277, 13107, 3276, 1843>>, -53)

\* weight *= 1.1 or 0.9
Reinforce64(w, strategy, success) ==
    LET scaled(i) == IF Strategies[i] = strategy THEN Multiply64(w[i], Factor64(success))
                     ELSE w[i]
    IN  <<scaled(1), scaled(2), scaled(3), scaled(4)>>

\* sum(self.strategy_weights.values()), added from left to right
Sum64(w) == Add64(Add64(Add64(w[1], w[2]), w[3]), w[4])

\* self.strategy_weights[key] /= total_weight, for every key
DivideEach64(w, total_weight) ==
    <<Divide64(w[1], total_weight), Divide64(w[2], total_weight),
      Divide64(w[3], total_weight), Divide64(w[4], total_weight)>>

\* the normalization of update_from_feedback
Normalize64(w) ==
    CHOOSE normalized \in {DivideEach64(w, total_weight) : total_weight \in {Sum64(w)}} : TRUE

\* the weights after update_from_feedback(strategy, success)
Update64(w, strategy, success) ==
    CHOOSE updated \in {Normalize64(scaled) : scaled \in {Reinforce64(w, strategy, success)}} :
        TRUE

\* the constructed state before a run of update_from_feedback calls, with the
\* floats the selector stores, those of before the last call, and that call
InitStored ==
    /\ Constructed
    /\ call = [op |-> "stored", stored |-> ConstructedWeights64,
               before |-> [weights |-> strategy_weights, success |-> strategy_success,
                           stored |-> ConstructedWeights64],
               last |-> <<>>]

\* StrategySelector.update_from_feedback, with the floats it stores
UpdateStored(strategy, success) ==
    /\ pc = "ready"
    /\ call.op = "stored"
    /\ TotalFeedback < MaxStored
    /\ strategy_success' = CountFeedback(strategy_success, strategy, success)
    /\ strategy_weights' = Normalize(Reinforce(strategy_weights, strategy, success))
    /\ call' = [call EXCEPT !.stored = Update64(call.stored, strategy, success),
                            !.before = [weights |-> strategy_weights,
                                        success |-> strategy_success,
                                        stored |-> call.stored],
                            !.last = <<Update(strategy, success)>>]
    /\ UNCHANGED <<simulation_mode, cache, memory_store, pc>>

\* the update_from_feedback calls of the run
NextStored == \E strategy \in StrategyNames, success \in BOOLEAN : UpdateStored(strategy, success)

SpecStored == InitStored /\ [][NextStored]_vars

----------------------------------------------------------------------------
(* Properties *)

DoneWith(op) == pc = "done" /\ call.op = op

\* the confidence execute_strategy goes on with after its content presence check
Effective(result) == IF result.answer \in {"", " "} THEN 0 ELSE result.confidence

\* the observed execute_strategy call reached its primary strategy's predict
PrimaryCalled == DoneWith("execute") /\ Len(call.out.calls) >= 2

\* the observed execute_strategy call fell back to a third predict
FallbackCalled == DoneWith("execute") /\ Len(call.out.calls) >= 3

Invoked(strategy_name) ==
    \E i \in 1..Len(call.out.calls) : call.out.calls[i].strategy = strategy_name

\* C1: a /respond request whose feature record has is_rule_violation set ends
\* with the rule guard's fixed safety refusal, confidence 1.0, strategy
\* Rule-Based, and Transformer.predict is never called.
C1_RuleViolationRefused ==
    (DoneWith("respond") /\ call.features.is_rule_violation)
        => /\ ~call.out.raised
           /\ call.out.answer = SAFETY_REFUSAL
           /\ call.out.confidence = 100
           /\ call.out.strategy = "Rule-Based"
           /\ ~Invoked("Transformer")

\* C2: select_strategy returns Rule-Based for every feature record with
\* is_rule_violation set, whatever its other fields and whatever the weights
\* are after any feedback events.
C2_ViolationSelectsRuleBased ==
    (DoneWith("select") /\ Get(call.features, "is_rule_violation", FALSE))
        => call.selected = "Rule-Based"

\* a flagged record of factual intent is selected after Transformer was rewarded
C2_Witness ==
    /\ DoneWith("select")
    /\ Get(call.features, "is_rule_violation", FALSE)
    /\ Get(call.features, "intent", "general") = "factual"
    /\ strategy_success["Transformer"].success >= 1
    /\ call.selected = "Rule-Based"

\* C3 as stated: select_strategy returns Retrieval for every feature record
\* with intent = factual, whatever its other fields and the weights.
C3_FactualSelectsRetrieval ==
    (DoneWith("select") /\ Get(call.features, "intent", "general") = "factual")
        => call.selected = "Retrieval"

\* C3 as amended: select_strategy returns Retrieval for every feature record
\* with intent = factual whose is_rule_violation is not set, whatever its other
\* fields and the weights.
C3_UnflaggedFactualSelectsRetrieval ==
    (/\ DoneWith("select")
     /\ Get(call.features, "intent", "general") = "factual"
     /\ ~Get(call.features, "is_rule_violation", FALSE))
        => call.selected = "Retrieval"

\* an unflagged factual record without indicator keyword, after Retrieval failed
C3_Witness ==
    /\ DoneWith("select")
    /\ Get(call.features, "intent", "general") = "factual"
    /\ "is_rule_violation" \in DOMAIN call.features
    /\ ~call.features.is_rule_violation
    /\ call.features.query = <<"kerala">>
    /\ strategy_success["Retrieval"].total >= 1
    /\ strategy_success["Retrieval"].success = 0
    /\ call.selected = "Retrieval"

\* C4: a /respond request that select_strategy routes to Retrieval through the
\* factual lock never calls Transformer.predict and never ends with strategy
\* Transformer, whatever Retrieval returns.
C4_FactualLockNeverGenerates ==
    (/\ DoneWith("respond")
     /\ ~call.features.is_rule_violation
     /\ FactualLock(call.features)
     /\ call.selected = "Retrieval")
        => ~Invoked("Transformer") /\ call.out.strategy # "Transformer"

\* C5: every execute_strategy call starts with Rule-Based.predict; when that
\* returns confidence >= 0.9 the call returns that result with strategy
\* Rule-Based and calls no other predict.
C5_RuleGuardFirst ==
    DoneWith("execute")
        => /\ Len(call.out.calls) >= 1
           /\ call.out.calls[1] = Called("Rule-Based", RuleEngine_predict(call.query, call.features))
           /\ call.out.calls[1].result.confidence >= 90
                => /\ Len(call.out.calls) = 1
                   /\ ~call.out.raised
                   /\ call.out.answer = call.out.calls[1].result.answer
                   /\ call.out.confidence = call.out.calls[1].result.confidence
                   /\ call.out.reason = call.out.calls[1].result.reason
                   /\ call.out.strategy = "Rule-Based"

\* the guard fires although another strategy was selected
C5_Witness ==
    /\ DoneWith("execute")
    /\ call.selected = "Transformer"
    /\ call.out.calls[1].result.confidence >= 90
    /\ call.out.strategy = "Rule-Based"

\* C6: when the rule guard does not fire, the primary result's confidence after
\* the empty check is below 0.35, and the intent is factual or the selected
\* strategy is Transformer, execute_strategy returns the safe failure with
\* confidence 0.0, the below-threshold rationale and the selected strategy,
\* and calls no further predict.
C6_PolicyRefusal ==
    (/\ PrimaryCalled
     /\ Effective(call.out.calls[2].result) < 35
     /\ (Get(call.features, "intent", "general") = "factual" \/ call.selected = "Transformer"))
        => /\ Len(call.out.calls) = 2
           /\ ~call.out.raised
           /\ call.out.answer = SAFE_FAILURE
           /\ call.out.confidence = 0
           /\ call.out.reason = <<"Safe Failure: Confidence below threshold">>
           /\ call.out.strategy = call.selected

\* a low Transformer attempt on a query that is not factual is refused
C6_Witness ==
    /\ PrimaryCalled
    /\ call.selected = "Transformer"
    /\ call.features.intent = "general"
    /\ call.out.calls[2].result.confidence = 10
    /\ call.out.answer = SAFE_FAILURE
    /\ call.out.strategy = "Transformer"

\* C7: an execute_strategy call makes at most one fallback predict call, only
\* after the primary result fell below 0.35 with an intent other than factual
\* and a selected strategy other than Transformer; the fallback is
\* Transformer.predict and the result then carries strategy Transformer.
C7_OneFallbackHop ==
    DoneWith("execute")
        => /\ Len(call.out.calls) <= 3
           /\ Len(call.out.calls) = 3
                => /\ call.out.calls[3].strategy = "Transformer"
                   /\ call.out.calls[2].strategy = call.selected
                   /\ Effective(call.out.calls[2].result) < 35
                   /\ Get(call.features, "intent", "general") # "factual"
                   /\ call.selected # "Transformer"
                   /\ call.out.strategy = "Transformer"
           /\ (call.out.strategy = "Transformer" /\ call.selected # "Transformer")
                => Len(call.out.calls) = 3

\* Classical ML fell below the threshold and Transformer answered instead
C7_Witness ==
    /\ FallbackCalled
    /\ call.selected = "Classical ML"
    /\ call.out.calls[2].result.confidence = 34
    /\ call.out.strategy = "Transformer"
    /\ call.out.confidence = 85

\* C8: after a fallback, a fallback confidence below 0.2 gives the safe failure
\* with confidence 0.0, a high-hallucination-risk rationale and strategy
\* Transformer; otherwise the fallback's answer, confidence and rationale are
\* returned unchanged.
C8_FinalValidation ==
    FallbackCalled
        => /\ ~call.out.raised
           /\ call.out.strategy = "Transformer"
           /\ IF call.out.calls[3].result.confidence < 20
              THEN /\ call.out.answer = SAFE_FAILURE
                   /\ call.out.confidence = 0
                   /\ call.out.reason = <<"Safe Failure: High Hallucination Risk (">>
                                        \o call.out.calls[3].result.reason \o <<")">>
              ELSE /\ call.out.answer = call.out.calls[3].result.answer
                   /\ call.out.confidence = call.out.calls[3].result.confidence
                   /\ call.out.reason = call.out.calls[3].result.reason

\* the fallback's validation failure (confidence 0.1) is turned into the refusal
C8_Witness ==
    /\ FallbackCalled
    /\ call.out.calls[3].result.confidence = 10
    /\ call.out.answer = SAFE_FAILURE
    /\ call.out.reason[1] = "Safe Failure: High Hallucination Risk ("

\* C9: when the rule guard does not fire and the selected strategy returns a
\* non-blank answer with confidence >= 0.35, execute_strategy returns that
\* answer, confidence and rationale with the selected strategy, and Transformer
\* is not called as a fallback.
C9_PrimaryReturnedAsIs ==
    (/\ PrimaryCalled
     /\ call.out.calls[2].result.answer \notin {"", " "}
     /\ call.out.calls[2].result.confidence >= 35)
        => /\ Len(call.out.calls) = 2
           /\ ~call.out.raised
           /\ call.out.answer = call.out.calls[2].result.answer
           /\ call.out.confidence = call.out.calls[2].result.confidence
           /\ call.out.reason = call.out.calls[2].result.reason
           /\ call.out.strategy = call.selected

\* a Classical ML answer exactly at the threshold is returned
C9_Witness ==
    /\ PrimaryCalled
    /\ call.selected = "Classical ML"
    /\ call.out.calls[2].result.confidence = 35
    /\ call.out.confidence = 35
    /\ call.out.strategy = "Classical ML"

\* C10: no failure escapes execute_strategy: also for a strategy name that is
\* not registered it returns a result instead of raising.
C10_NoFailureEscapes == DoneWith("execute") => ~call.out.raised

----------------------------------------------------------------------------
(* Properties of the weights *)

\* the feedback events counted so far for a strategy
Failures(strategy) == strategy_success[strategy].total - strategy_success[strategy].success

Successes(strategy) == strategy_success[strategy].success

\* C11: after each update_from_feedback call, whatever the strategies and the
\* success values of the calls so far, the four weights sum to 1.
C11_WeightsSumToOne ==
    (call.op = "learn" /\ TotalFeedback >= 1)
        => SumOf(strategy_weights.num) = strategy_weights.den

\* the weights sum to 1 after a failure and a success of two strategies
C11_Witness ==
    /\ call.op = "learn"
    /\ Failures("Retrieval") = 1
    /\ Successes("Transformer") = 1
    /\ strategy_weights.num["Retrieval"] < strategy_weights.num["Transformer"]
    /\ SumOf(strategy_weights.num) = strategy_weights.den

\* the two /feedback requests in flight were both applied, as a success and a
\* failure of the same strategy
ConcurrentPair(strategy) ==
    /\ DoneWith("feedback")
    /\ Len(call.requests) = 2
    /\ \E i \in 1..2 :
          /\ call.requests[i].updates = <<Update(strategy, TRUE)>>
          /\ call.requests[3 - i].updates = <<Update(strategy, FALSE)>>

\* C12: when two update_from_feedback calls for the same strategy, one success
\* and one failure, come from two /feedback requests in flight together, then
\* in every order of service the counters end at total + 2 and success + 1,
\* the weights sum to 1, and the weight of the strategy relative to every
\* other one is 1.1 * 0.9 = 0.99 of what it was.
C12_NoLostUpdate ==
    \A s \in StrategyNames :
        ConcurrentPair(s)
            => /\ strategy_success[s].total = call.before.success[s].total + 2
               /\ strategy_success[s].success = call.before.success[s].success + 1
               /\ \A t \in StrategyNames \ {s} :
                     /\ strategy_success[t] = call.before.success[t]
                     /\ strategy_weights.num[s] * call.before.weights.num[t] * 100
                            = strategy_weights.num[t] * call.before.weights.num[s] * 99
               /\ SumOf(strategy_weights.num) = strategy_weights.den

\* a failure served before the success of the same strategy, after an
\* earlier success of that strategy
C12_Witness ==
    /\ ConcurrentPair("Retrieval")
    /\ call.requests[1].updates = <<Update("Retrieval", FALSE)>>
    /\ call.requests[1].experience_id # call.requests[2].experience_id
    /\ call.before.success["Retrieval"] = [success |-> 1, total |-> 1]
    /\ strategy_success["Retrieval"] = [success |-> 2, total |-> 3]

\* C13: every /feedback request the store accepts makes exactly one
\* update_from_feedback call, for the strategy recorded for its experience,
\* before it reports success, however many experiences were stored after it.
C13_NoFeedbackDropped ==
    DoneWith("feedback")
        => \A i \in DOMAIN call.requests :
              call.requests[i].status = "success"
                  => call.requests[i].updates
                        = <<Update(memory_store[call.requests[i].experience_id].strategy,
                                   call.requests[i].feedback = 1)>>

\* a/b < c/d for a, c >= 0 and b, d > 0, compared by their continued fractions
RECURSIVE FracLess(_, _, _, _)
FracLess(a, b, c, d) ==
    IF a \div b # c \div d THEN a \div b < c \div d
    ELSE IF c % d = 0 THEN FALSE
    ELSE IF a % b = 0 THEN TRUE
    ELSE FracLess(d, c % d, b, a % b)

\* the step is an update_from_feedback(strategy, True)
SuccessEvent(strategy) ==
    strategy_success'[strategy].success = strategy_success[strategy].success + 1

\* the step is an update_from_feedback(strategy, False)
FailureEvent(strategy) ==
    /\ strategy_success'[strategy].total = strategy_success[strategy].total + 1
    /\ strategy_success'[strategy].success = strategy_success[strategy].success

RECURSIVE FailureRun(_)
FailureRun(n) ==
    IF n = 0 THEN [num |-> [s \in StrategyNames |-> 1], den |-> 1]
    ELSE Normalize(Reinforce(FailureRun(n - 1), "Retrieval", FALSE))

\* C15: the weights have a floor: whatever the feedback events, no weight is
\* below the weight a strategy has after MaxLearn - 1 failures in a row.
C15_WeightFloor ==
    call.op = "learn"
        => \A s \in StrategyNames :
              ~FracLess(strategy_weights.num[s], strategy_weights.den,
                        FailureRun(MaxLearn - 1).num["Retrieval"], FailureRun(MaxLearn - 1).den)

----------------------------------------------------------------------------
(* Properties of the retrieval engine *)

\* the predict calls that have returned
Finished == Len(call.results)

\* call.trace is the whole of the steps of the last predict call that returned
TraceComplete ==
    call.op = "retrieve" /\ Finished >= 1 /\ call.at \in {"predict", "returned"}

\* the result of the last predict call that returned
LastResult == call.results[Finished]

\* the normalized query of the i-th predict call, as the source computes it
Normalized(i) == strip(lower(call.queries[i]))

\* the two predict calls have returned and had the same normalized query
ResolvedTwice ==
    /\ DoneWith("retrieve")
    /\ Finished = 2
    /\ Normalized(1) = Normalized(2)

\* the second predict call was answered by the cache alone, with the tuple the
\* first call returned
AnsweredFromCache ==
    /\ call.results[2] = call.results[1]
    /\ call.trace = <<Event("cache", "hit")>>

\* C16 as stated: for every outcome of the first call (local hit, provider
\* hit, all tiers exhausted), the second predict call for the same normalized
\* query returns the tuple of the first without a similarity search or a
\* provider request.
C16_SecondCallFromCache == ResolvedTwice => AnsweredFromCache

\* C16 amended: when the first call returned an answer (a local hit or a
\* provider hit, confidence above 0.1), the second predict call for the same
\* normalized query returns the same tuple from the cache alone.
C16_AnsweredSecondCallFromCache ==
    (ResolvedTwice /\ call.results[1].confidence > 10) => AnsweredFromCache

\* a Wikipedia extract for "What", then "What " with a trailing blank, answered
\* from the cache
C16_Witness ==
    /\ ResolvedTwice
    /\ call.queries = <<<<"What">>, <<"What", " ">>>>
    /\ call.results[1] = Triple("{extract}", 90, <<"Wikipedia: ", "{title}">>)
    /\ AnsweredFromCache

\* the place of a tier in the cascade; the direct lookup and the search API
\* are both the secondary provider
TierRank(tier) ==
    CASE tier = "cache" -> 1
      [] tier = "local" -> 2
      [] tier = "duckduckgo" -> 3
      [] tier \in {"wikipedia", "search"} -> 4

\* the outcomes of a step that are an answer of its tier
Answers == {"hit", "match", "answer", "blank answer", "extract"}

\* the predict call whose steps call.trace holds
TraceCall == IF TraceComplete THEN Finished ELSE call.n

\* the best similarity of the knowledge base for the query of call i
BestScore(i) == call.search[query_norm(call.queries[i])].best_score

\* the tuple a tier's answer stands for, for the predict call of query i
AnswerOf(event, i) ==
    CASE event.outcome = "match" -> LocalResult(BestScore(i))
      [] event.outcome \in {"answer", "blank answer"} -> duckduckgo_result(event.outcome)
      [] event.outcome = "extract" -> wikipedia_result(event.outcome)
      [] OTHER -> Triple("", 0, <<"Web retrieval failed (all APIs exhausted)">>)

\* C17: the steps of a predict call consult the cache, the local index,
\* DuckDuckGo and Wikipedia in that order; a step follows another only if the
\* other gave no answer; the local index answers only with a best score
\* strictly above 0.4; and the call returns the answer of the first tier that
\* gave one, or the empty result when none did.
C17_TierOrder ==
    call.op = "retrieve" =>
        /\ call.trace # <<>> => call.trace[1].tier = "cache"
        /\ \A i \in 1..(Len(call.trace) - 1) :
              /\ call.trace[i].outcome \notin Answers
              /\ TierRank(call.trace[i].tier) <= TierRank(call.trace[i + 1].tier)
              /\ TierRank(call.trace[i].tier) = TierRank(call.trace[i + 1].tier)
                    => TierRank(call.trace[i].tier) = 4
        /\ \A i \in 1..Len(call.trace) :
              /\ call.trace[i].outcome = "match" => BestScore(TraceCall) > 40
              /\ call.trace[i].outcome = "no match" => BestScore(TraceCall) <= 40
        /\ (TraceComplete /\ call.trace[Len(call.trace)].outcome # "hit")
              => LastResult = AnswerOf(call.trace[Len(call.trace)], Finished)

\* a call that went through all four tiers and returned the Wikipedia
\* extract, the local best score being exactly 0.4
C17_Witness ==
    /\ TraceComplete
    /\ Finished = 1
    /\ call.search[Normalized(1)] = [raises |-> FALSE, best_score |-> 40]
    /\ call.trace = <<Event("cache", "miss"), Event("local", "no match"),
                      Event("duckduckgo", "no answer"), Event("wikipedia", "extract")>>
    /\ LastResult = Triple("{extract}", 90, <<"Wikipedia: ", "{title}">>)

\* the step after a tier that gave no answer: where the call goes on, or that
\* it returned the empty result after the last provider
AbsorbedAt(i) ==
    LET tier == call.trace[i].tier
        next == IF tier = "local" THEN "duckduckgo" ELSE "wikipedia"
    IN  IF tier \in {"local", "duckduckgo"}
        THEN IF i = Len(call.trace) THEN call.at = next /\ pc = "ready"
             ELSE /\ call.trace[i + 1].tier = next
                  /\ call.trace[i + 1].outcome \in Answers
                        => /\ TraceComplete
                           /\ LastResult = AnswerOf(call.trace[i + 1], Finished)
        ELSE /\ i = Len(call.trace)
             /\ TraceComplete
             /\ LastResult = Triple("", 0, <<"Web retrieval failed (all APIs exhausted)">>)

\* C18: a timeout, a network error or a malformed payload of a provider, or
\* a failure of the local similarity search, never leaves predict as an
\* exception: the step counts as no answer of its tier, the next tier is
\* consulted, and its answer is returned if it gives one.
C18_FailuresAbsorbed ==
    call.op = "retrieve" =>
        /\ ~call.raised
        /\ \A i \in 1..Len(call.trace) :
              call.trace[i].outcome \in Exceptions => AbsorbedAt(i)

\* the local search raised, DuckDuckGo gave no answer and Wikipedia answered;
\* in the next call DuckDuckGo timed out and the Wikipedia lookup got a
\* payload that is not JSON
C18_Witness ==
    /\ DoneWith("retrieve")
    /\ ~call.raised
    /\ Finished = 2
    /\ call.documents
    /\ call.search[query_norm(call.queries[1])].raises
    /\ call.results[1] = Triple("{extract}", 90, <<"Wikipedia: ", "{title}">>)
    /\ Normalized(1) # Normalized(2)
    /\ call.trace = <<Event("cache", "miss"), Event("local", "no match"),
                      Event("duckduckgo", "Timeout"),
                      Event("wikipedia", "JSONDecodeError")>>
    /\ LastResult = Triple("", 0, <<"Web retrieval failed (all APIs exhausted)">>)

\* the requests of the steps of a call to the search API
Searches(trace) == Cardinality({i \in DOMAIN trace : trace[i].tier = "search"})

\* C19: one predict call makes at most one request to the search API, hence
\* at most two direct lookups and four provider requests, also when every
\* direct lookup reports not-found.
C19_OneRetry ==
    call.op = "retrieve" =>
        /\ Searches(call.trace) <= 1
        /\ Lookups(call.trace) <= 2
        /\ Len(call.trace) <= 6

\* the cache entries are answers: a confidence above 0.1, an answer that is
\* not empty
Answered(result) == result.confidence > 10 /\ result.answer # ""

\* C20: every entry of the cache has a confidence above 0.1 and a non-empty
\* answer; a predict call in which no tier answered returns the empty answer
\* with confidence 0.0 and leaves no entry for its query.
C20_CacheHoldsAnswers ==
    call.op = "retrieve" =>
        /\ \A key \in DOMAIN cache : Answered(cache[key])
        /\ (TraceComplete /\ call.trace[Len(call.trace)].outcome \notin Answers)
              => /\ LastResult = Triple("", 0, <<"Web retrieval failed (all APIs exhausted)">>)
                 /\ query_norm(call.queries[Finished]) \notin DOMAIN cache

\* no tier answered the first call, which left the cache empty; the second
\* call, for another query, was answered by DuckDuckGo and is the one entry
C20_Witness ==
    /\ DoneWith("retrieve")
    /\ Finished = 2
    /\ call.results[1] = Triple("", 0, <<"Web retrieval failed (all APIs exhausted)">>)
    /\ call.results[2] = Triple("{abstract}", 85, <<"Web Retrieval (DuckDuckGo IA)">>)
    /\ DOMAIN cache = {query_norm(call.queries[2])}
    /\ Normalized(1) # Normalized(2)

----------------------------------------------------------------------------
(* Properties of the scoring engine *)

\* the intent select_strategy scores a feature record with
IntentOf(features) == Get(features, "intent", "general")

\* the intents for which the Transformer guard keeps the matrix value
QualitativeIntents == {"explanation", "reason", "general"}

\* C21: for every feature record whose intent is not explanation, reason or
\* general, select_strategy never returns Transformer, whatever the
\* complexity, has_number and the weights reached through feedback events.
C21_TransformerNeverWins ==
    (DoneWith("select") /\ IntentOf(call.features) \notin QualitativeIntents)
        => call.selected # "Transformer"

\* the observed select_strategy call got a record that passes both hard
\* pre-checks, and has returned
Scored ==
    /\ DoneWith("select")
    /\ ~Get(call.features, "is_rule_violation", FALSE)
    /\ IntentOf(call.features) # "factual"
    /\ ~ContainsAny(lower(Get(call.features, "query", <<>>)), factual_indicators)

\* the base score of the statement, in tenths: the matrix value of the
\* intent's row (general's row for an intent without a row), 0.1 for
\* Transformer outside explanation, reason and general
StatedBase(strategy, intent) ==
    IF strategy = "Transformer" /\ intent \notin QualitativeIntents THEN 1
    ELSE CAPABILITY_MATRIX[IF intent \in DOMAIN CAPABILITY_MATRIX THEN intent
                           ELSE "general"][strategy]

\* the context bonus of the statement
StatedBonus(strategy, features) ==
    LET complexity == Get(features, "complexity", "low")
        has_number == Get(features, "has_number", FALSE)
    IN  CASE strategy = "Transformer" -> IF complexity = "high" THEN 3 ELSE 0
          [] strategy = "Classical ML" ->
                (IF complexity = "low" THEN 2 ELSE 0) + (IF has_number THEN 2 ELSE 0)
          [] OTHER -> IF complexity = "low" THEN 2 ELSE 0

\* the utility of the statement, times 10 * den of the current weights
StatedUtility(strategy, features) ==
    StatedBase(strategy, IntentOf(features)) * strategy_weights.num[strategy] * 4
    + StatedBonus(strategy, features) * 10 * strategy_weights.den

\* the place of a strategy in the fixed order
OrderOf(strategy) == CHOOSE i \in 1..Len(Strategies) : Strategies[i] = strategy

AsGeneral == [call.features EXCEPT !.intent = "general"]

\* the observed select_strategy call scored a record whose intent is none of
\* the six intents of the matrix
ScoredUnknown ==
    /\ Scored
    /\ "intent" \in DOMAIN call.features
    /\ call.features.intent \notin DOMAIN CAPABILITY_MATRIX

\* C23 as stated: for a record whose intent is outside the six known values
\* and that passes both pre-checks, select_strategy computes the same
\* utilities and returns the same strategy as for the record with
\* intent = general.
C23_UnknownIntentAsGeneral ==
    ScoredUnknown =>
        /\ \A s \in StrategyNames :
              final_utility(s, call.features, strategy_weights)
                  = final_utility(s, AsGeneral, strategy_weights)
        /\ call.selected = select_strategy(AsGeneral, strategy_weights)

\* C23 amended: for such a record Rule-Based, Retrieval and Classical ML get
\* the utilities they get with intent = general, Transformer gets base score
\* 0.1 instead of general's 6.0, and the strategy returned is the first
\* maximum of these utilities.
C23_UnknownIntentGeneralRow ==
    ScoredUnknown =>
        /\ \A s \in StrategyNames \ {"Transformer"} :
              final_utility(s, call.features, strategy_weights)
                  = final_utility(s, AsGeneral, strategy_weights)
        /\ final_utility("Transformer", call.features, strategy_weights)
              = final_utility("Transformer", AsGeneral, strategy_weights)
                    - 59 * strategy_weights.num["Transformer"] * 4
        /\ \A s \in StrategyNames :
              /\ StatedUtility(s, call.features) <= StatedUtility(call.selected, call.features)
              /\ OrderOf(s) < OrderOf(call.selected)
                    => StatedUtility(s, call.features)
                          < StatedUtility(call.selected, call.features)

\* an unknown intent at low complexity under the initial weights: Classical
\* ML is returned, where intent = general gives Transformer
C23_Witness ==
    /\ ScoredUnknown
    /\ TotalFeedback = 0
    /\ call.features.complexity = "low"
    /\ ~call.features.has_number
    /\ call.selected = "Classical ML"
    /\ select_strategy(AsGeneral, strategy_weights) = "Transformer"

----------------------------------------------------------------------------
(* Properties of the learning state *)

\* the step is the feedback event (strategy, success): the weight of the
\* strategy was multiplied by 1.1 or by 0.9 and the weights were divided by
\* their sum
EventStep(strategy, success) ==
    strategy_weights' = Normalize(Reinforce(strategy_weights, strategy, success))

\* C24: each feedback event for a strategy adds 1 to its total, adds 1 to its
\* success exactly when the event is a success, and leaves the counters of the
\* other strategies as they are; so the counters count the events, never
\* decrease, and 0 <= success <= total.
C24_CountersCountEvents ==
    /\ [](call.op = "learn"
             => \A s \in StrategyNames :
                   /\ 0 <= strategy_success[s].success
                   /\ strategy_success[s].success <= strategy_success[s].total)
    /\ [][call.op = "learn" =>
             \A strategy \in StrategyNames : \A success \in BOOLEAN :
                 EventStep(strategy, success) =>
                     /\ strategy_success'[strategy].total
                           = strategy_success[strategy].total + 1
                     /\ strategy_success'[strategy].success
                           = strategy_success[strategy].success + (IF success THEN 1 ELSE 0)
                     /\ \A s \in StrategyNames \ {strategy} :
                           strategy_success'[s] = strategy_success[s]]_vars

\* one success and one failure of Retrieval and one failure of Transformer
C24_Witness ==
    /\ call.op = "learn"
    /\ strategy_success["Retrieval"] = [success |-> 1, total |-> 2]
    /\ strategy_success["Transformer"] = [success |-> 0, total |-> 1]
    /\ TotalFeedback = 3

\* C25: under the initial weights, a record with intent = calculation and
\* has_number set that passes both hard pre-checks is routed to Classical ML,
\* at low and at high complexity.
C25_CalculationToClassicalML ==
    (/\ Scored
     /\ TotalFeedback = 0
     /\ IntentOf(call.features) = "calculation"
     /\ Get(call.features, "has_number", FALSE))
        => call.selected = "Classical ML"

\* such a record at high complexity, where Transformer has its bonus
C25_Witness ==
    /\ Scored
    /\ TotalFeedback = 0
    /\ IntentOf(call.features) = "calculation"
    /\ Get(call.features, "has_number", FALSE)
    /\ Get(call.features, "complexity", "low") = "high"
    /\ Get(call.features, "query", <<>>) = <<"calculate">>
    /\ call.selected = "Classical ML"

\* the observed /respond request was answered under the initial weights
AnsweredInitially == DoneWith("respond") /\ TotalFeedback = 0

\* the words of the fourth request of automated_test.py, "Explain in detail
\* the implications of AI on modern healthcare and data privacy", that decide
\* its features
DeepReasoningQuery == <<"explain", "implications">>

\* the rule guard of the observed request did not fire and the predict of
\* Transformer, called as the selected strategy, reported 0.35 or more
TransformerAnswered ==
    /\ Len(call.out.calls) >= 2
    /\ call.out.calls[1].result.confidence < 90
    /\ call.out.calls[2].strategy = "Transformer"
    /\ call.out.calls[2].result.confidence >= 35

\* select_strategy returned Transformer, and the result has strategy
\* Transformer when the guard did not fire and Transformer reported 0.35 or more
ByTransformer ==
    /\ call.selected = "Transformer"
    /\ TransformerAnswered => call.out.strategy = "Transformer"

\* C26: under the initial weights a record with intent = explanation and
\* complexity = high that passes both hard pre-checks is selected for
\* Transformer and, the rule guard silent and Transformer at 0.35 or more, is
\* answered with strategy Transformer; and so is the request automated_test.py
\* sends as its Deep Reasoning case.
C26_ExplanationByTransformer ==
    AnsweredInitially =>
        /\ (/\ call.features.intent = "explanation"
            /\ call.features.complexity = "high"
            /\ ~HardSafetyCheck(call.features)
            /\ ~FactualLock(call.features)) => ByTransformer
        /\ strip(lower(call.query)) = DeepReasoningQuery => ByTransformer

\* C27: a step that selects and executes (the /respond request) changes no
\* weight and no counter; the weights and the counters change only in an
\* update_from_feedback step, and that step leaves the retrieval cache and
\* the request as they are.
C27_LearningStateFrame ==
    [][/\ call' # call
            => /\ strategy_weights' = strategy_weights
               /\ strategy_success' = strategy_success
       /\ (strategy_weights' # strategy_weights \/ strategy_success' # strategy_success)
            => /\ TotalFeedback' = TotalFeedback + 1
               /\ cache' = cache
               /\ call' = call]_vars

\* after one feedback event, a request routed to Retrieval wrote the cache and
\* left the weights and the counters of that event
C27_Witness ==
    /\ DoneWith("respond")
    /\ TotalFeedback = 1
    /\ strategy_success["Retrieval"] = [success |-> 0, total |-> 1]
    /\ strategy_weights = Normalize(Reinforce([num |-> [s \in StrategyNames |-> 1], den |-> 1],
                                              "Retrieval", FALSE))
    /\ call.selected = "Retrieval"
    /\ cache # <<>>

\* C28: when the selected strategy returns an empty or whitespace-only
\* answer, execute_strategy goes on as for a confidence of 0.0 whatever
\* confidence was reported: the result is never returned through the
\* threshold check; the call ends in the policy refusal when the intent is
\* factual or the selected strategy is Transformer, and otherwise makes the
\* Transformer fallback call.
C28_BlankAnswerIsFailure ==
    (/\ PrimaryCalled
     /\ call.out.calls[2].result.answer \in {"", " "})
        => IF Get(call.features, "intent", "general") = "factual" \/ call.selected = "Transformer"
           THEN /\ Len(call.out.calls) = 2
                /\ call.out.answer = SAFE_FAILURE
                /\ call.out.confidence = 0
                /\ call.out.reason = <<"Safe Failure: Confidence below threshold">>
                /\ call.out.strategy = call.selected
           ELSE /\ Len(call.out.calls) = 3
                /\ call.out.calls[3].strategy = "Transformer"
                /\ call.out.strategy = "Transformer"

\* Retrieval reported 0.85 with a whitespace-only answer on a query that is
\* not factual, and the Transformer fallback answered instead
C28_Witness ==
    /\ PrimaryCalled
    /\ call.selected = "Retrieval"
    /\ call.out.calls[2].result.answer = " "
    /\ call.out.calls[2].result.confidence = 85
    /\ Get(call.features, "intent", "general") # "factual"
    /\ Len(call.out.calls) = 3
    /\ call.out.strategy = "Transformer"
    /\ call.out.confidence >= 35

WeightRaised(strategy) ==
    FracLess(strategy_weights.num[strategy], strategy_weights.den,
             strategy_weights'.num[strategy], strategy_weights'.den)

\* the stored weight of the strategy is smaller after the step than before it
WeightLowered(strategy) ==
    FracLess(strategy_weights'.num[strategy], strategy_weights'.den,
             strategy_weights.num[strategy], strategy_weights.den)

----------------------------------------------------------------------------
(* Properties of a controller constructed with normalized weights *)

\* the weights w divided by their sum: 0.25 each for the constructed weights
Rescaled(w) == [num |-> w.num, den |-> SumOf(w.num)]

\* the step is an update_from_feedback(strategy, success), and the weights
\* divided by their sum go where the same call takes the weights of before
\* divided by their sum
TwinStep(strategy, success) ==
    /\ strategy_success'[strategy].total = strategy_success[strategy].total + 1
    /\ strategy_success'[strategy].success
          = strategy_success[strategy].success + (IF success THEN 1 ELSE 0)
    /\ Reduce(strategy_weights'.num, SumOf(strategy_weights'.num))
          = Normalize(Reinforce(Rescaled(strategy_weights), strategy, success))

\* every feedback event keeps the weights divided by their sum equal to the
\* weights of a controller constructed with 0.25 for every strategy
TwinFollows ==
    [][TotalFeedback' # TotalFeedback
          => \E strategy \in StrategyNames, success \in BOOLEAN : TwinStep(strategy, success)]_vars

\* C31 as stated: a controller constructed with 0.25 for every strategy
\* routes as this one does: for every record that reaches scoring,
\* select_strategy returns the same strategy under the initial weights and
\* under the uniform normalized ones, and after every identical sequence of
\* feedback events.
C31_NormalizedConstructionSameRouting ==
    /\ [](Scored => call.selected = select_strategy(call.features, Rescaled(strategy_weights)))
    /\ TwinFollows

\* C31 amended: after at least one feedback event the two controllers hold
\* the same weights and select the same strategy for every record that
\* reaches scoring; before the first event they select the same strategy
\* except for a record with a number at low complexity whose intent is
\* general (Transformer with 1.0, Classical ML with 0.25) and for a record
\* without a number at high complexity whose intent has no row of the matrix
\* (Classical ML with 1.0, Transformer with 0.25).
C31_SameRoutingAfterFirstFeedback ==
    /\ [](Scored =>
            LET twin == select_strategy(call.features, Rescaled(strategy_weights))
                intent == IntentOf(call.features)
                low == Get(call.features, "complexity", "low") = "low"
                high == Get(call.features, "complexity", "low") = "high"
                number == Get(call.features, "has_number", FALSE)
            IN  /\ TotalFeedback >= 1
                    => /\ call.selected = twin
                       /\ SumOf(strategy_weights.num) = strategy_weights.den
                /\ TotalFeedback = 0
                    => IF intent = "general" /\ low /\ number
                       THEN call.selected = "Transformer" /\ twin = "Classical ML"
                       ELSE IF intent \notin DOMAIN CAPABILITY_MATRIX /\ high /\ ~number
                       THEN call.selected = "Classical ML" /\ twin = "Transformer"
                       ELSE call.selected = twin)
    /\ TwinFollows

\* a general record with a number at low complexity, after one failure of
\* Transformer: both controllers hold 10/39 for Classical ML and select it
C31_Witness ==
    /\ Scored
    /\ TotalFeedback = 1
    /\ Failures("Transformer") = 1
    /\ IntentOf(call.features) = "general"
    /\ Get(call.features, "complexity", "low") = "low"
    /\ Get(call.features, "has_number", FALSE)
    /\ strategy_weights.num["Classical ML"] * 39 = strategy_weights.den * 10
    /\ call.selected = select_strategy(call.features, Rescaled(strategy_weights))

----------------------------------------------------------------------------
(* Properties of the order of the feedback events *)

\* the step is an update_from_feedback call that follows another one
SecondEvent == call.op = "stored" /\ call.last # <<>> /\ call'.last # <<>> /\ call' # call

\* the counters and the exact weights after the step are those the last two
\* calls give in the other order, from the state before both
SwappedExactly ==
    LET one == call.last[1]
        two == call'.last[1]
    IN  /\ strategy_success'
              = CountFeedback(CountFeedback(call.before.success, two.strategy, two.success),
                              one.strategy, one.success)
        /\ strategy_weights'
              = Normalize(Reinforce(Normalize(Reinforce(call.before.weights,
                                                        two.strategy, two.success)),
                                    one.strategy, one.success))

\* the stored floats after the step are those the last two calls give in the
\* other order, from the state before both
SwappedStored ==
    \E other \in {Update64(call.before.stored, call'.last[1].strategy, call'.last[1].success)} :
        call'.stored = Update64(other, call.last[1].strategy, call.last[1].success)

\* C32 as stated: the weights and the counters after a set of feedback
\* events do not depend on the order of the events: two calls applied in
\* either order from the same state end in the same counters and the same
\* stored weights, hence so do any two permutations of the same events.
C32_OrderIndependent ==
    [][SecondEvent => SwappedExactly /\ SwappedStored]_vars

\* C32 amended: the counters after a set of feedback events, and the weights
\* as the exact products and quotients of the update rule, do not depend on
\* the order of the events; the floats the selector stores do.
C32_OrderIndependentExactly ==
    [][SecondEvent => SwappedExactly]_vars

\* a success of Rule-Based after a failure of Rule-Based: the counters are
\* those of the other order and the exact weight is 0.99 / 3.99 in both, but
\* the stored float of Rule-Based is not the one of the other order
C32_Witness ==
    /\ call.op = "stored"
    /\ call.last = <<Update("Rule-Based", TRUE)>>
    /\ call.before.success["Rule-Based"] = [success |-> 0, total |-> 1]
    /\ strategy_success["Rule-Based"] = [success |-> 1, total |-> 2]
    /\ strategy_weights.num["Rule-Based"] * 399 = strategy_weights.den * 99
    /\ \E first \in {Update64(ConstructedWeights64, "Rule-Based", TRUE)} :
          /\ call.stored # Update64(first, "Rule-Based", FALSE)
          /\ call.stored[2] = Update64(first, "Rule-Based", FALSE)[2]

-----------------------------------------------------------------------------
(* Properties of execute_strategy over strategies obeying the contract *)

\* the fixed refusal with confidence 0.0
SafeRefusal(out) == out.answer = SAFE_FAILURE /\ out.confidence = 0

ContractReturned == DoneWith("contract") /\ ~call.out.raised

\* C33 as stated: whatever the strategies return within the predict contract,
\* a result execute_strategy returns is the safe refusal with confidence 0.0
\* or a non-empty answer with a confidence of at least the 0.35 threshold
C33_NoAnswerBelowThreshold ==
    ContractReturned =>
        \/ SafeRefusal(call.out)
        \/ /\ ~IsBlank(call.out.answer)
           /\ call.out.confidence >= confidence_threshold

\* C33 amended: a result execute_strategy returns is the safe refusal with
\* confidence 0.0, or the Rule-Based result of the rule guard with a
\* confidence of at least 0.9, or the selected strategy's result with a
\* non-blank answer and a confidence of at least the 0.35 threshold, or the
\* result of the fallback to Transformer with a confidence of at least 0.2,
\* whatever its answer
C33_ReturnedResultIsGuarded ==
    ContractReturned =>
        LET out == call.out
            result == Triple(out.answer, out.confidence, out.reason) IN
        \/ SafeRefusal(out)
        \/ /\ Len(out.calls) = 1
           /\ out.strategy = "Rule-Based"
           /\ result = call.predicted.rule
           /\ out.confidence >= 90
        \/ /\ Len(out.calls) = 2
           /\ out.strategy = call.selected
           /\ result = call.predicted.primary
           /\ out.answer \notin {"", " "}
           /\ out.confidence >= confidence_threshold
        \/ /\ Len(out.calls) = 3
           /\ out.strategy = "Transformer"
           /\ call.selected # "Transformer"
           /\ call.features.intent # "factual"
           /\ result = call.predicted.fallback
           /\ out.confidence >= 20

\* C33 witness: the fallback to Transformer answered with confidence 0.2,
\* below the threshold, and execute_strategy returned that answer
C33_Witness ==
    /\ ContractReturned
    /\ Len(call.out.calls) = 3
    /\ call.out.answer = "An answer."
    /\ call.out.confidence = 20
    /\ call.out.confidence < confidence_threshold

-----------------------------------------------------------------------------
(* Properties of the cache over a sequence of predict calls *)

\* C34: over the predict calls made one after the other, no step removes a
\* key of the cache or replaces the result stored for it; a key that is added
\* is the lower-cased, trimmed query of the call under way, stored with the
\* result that call returns
C34_CacheEntriesKept ==
    [][call.op = "retrieve" =>
          /\ \A key \in DOMAIN cache : key \in DOMAIN cache' /\ cache'[key] = cache[key]
          /\ \A key \in DOMAIN cache' \ DOMAIN cache :
                /\ key = strip(lower(Query))
                /\ cache'[key] = call'.results[Len(call'.results)]]_vars

\* C34 witness: the first call, of a query with a capital and a trailing
\* blank, was cached under its lower-cased, trimmed form; the second call, of
\* another query, added its own entry and the first entry is still the
\* result of the first call
C34_Witness ==
    /\ DoneWith("retrieve")
    /\ Finished = 2
    /\ call.queries[1] = <<"What", " ">>
    /\ DOMAIN cache = {<<"what">>, <<"kerala">>}
    /\ cache[<<"what">>] = call.results[1]
    /\ cache[<<"kerala">>] = call.results[2]
    /\ call.results[1] # call.results[2]

====
